---- MODULE Spec2Model ----
(***************************************************************************)
(* Model of dinocodesx/gemini-genkit-api.                                  *)
(*                                                                         *)
(* The repository holds two independent programs:                          *)
(*   ts/index.ts  completeRestaurantPackageFlow: menu -> design -> image,  *)
(*                three child steps awaited one after the other;           *)
(*   go/main.go   foodRecipeFlow behind POST /api/recipe, after one sample *)
(*                run at start-up.                                         *)
(* A behaviour is an execution of one of them: Init picks `program`. The    *)
(* flows of index.ts are explored in two ways: "ts", MaxRuns concurrent     *)
(* invocations on the example data, and "ts1", one invocation (as main()   *)
(* makes) on every input and every model output of the data sets.          *)
(*                                                                         *)
(* Strings that the code inspects character by character (TrimSpace, the   *)
(* file-name regexp) are sequences of one-character strings. An optional   *)
(* value is a sequence of length 0 (absent) or 1 (present).                *)
(***************************************************************************)
EXTENDS Integers, Sequences, FiniteSets, TLC

VARIABLES
    program,      \* which program this behaviour runs: "ts", "ts1" or "go"
    \* ---- ts/index.ts, one entry per run of completeRestaurantPackageFlow
    tsPc,         \* position of the run: the await it is suspended at
    tsInput,      \* restaurantSpecs
    tsMenu,       \* const menuData      (optional)
    tsDesign,     \* const designSpecs   (optional)
    tsText,       \* const { text } inside generateMenuCardImage (optional)
    tsResult,     \* what the run gave its caller: package or thrown error
    tsLog,        \* history: invocations, outbound calls and their returns
    tsCancelled,  \* the caller has given up on the run (nothing reads it)
    \* ---- the file system and the clock seen by generateMenuCardImage
    dirExists,    \* generated_menus exists
    files,        \* the files on disk: path, run that opened it last, content
    clock,        \* the latest reading of new Date(), in milliseconds
    \* ---- go/main.go
    goMain,       \* position of main: sample run in flight, returned, or serving
    goSample,     \* outcome of the sample run
    goPc,         \* per request: position
    goReq,        \* per request: method and body
    goDefaults,   \* per request: difficulty, servingSize, dietaryRestrictions
    goFlow,       \* per request: what foodRecipeFlow.Run returned
    goWrites,     \* per request: the responses written, in order
    goLog,        \* per request (0 is the sample run): outbound calls, returns
    goCancelled   \* per request: r.Context() is cancelled

tsVars == <<tsPc, tsInput, tsMenu, tsDesign, tsText, tsResult, tsLog,
            tsCancelled, dirExists, files, clock>>
goVars == <<goMain, goSample, goPc, goReq, goDefaults, goFlow, goWrites,
            goLog, goCancelled>>
vars == <<program, tsVars, goVars>>

\* ------------------------------------------------------------------ bounds
MaxRuns == 2      \* concurrent runs of completeRestaurantPackageFlow
MaxReqs == 2      \* HTTP requests the Go server receives
MaxClock == 1     \* the clock runs from 0 to MaxClock

Runs == 1..MaxRuns
Reqs == 1..MaxReqs

\* The two ways index.ts is run.
TsPrograms == {"ts", "ts1"}

\* ------------------------------------------------------------ basic values
None == <<>>
Some(v) == <<v>>

\* An opaque error of the collaborator (network, auth, rate limit, quota).
UpstreamCauses == {"quota exceeded"}

\* A JavaScript Error object: its message; `upstream` tells an error made by
\* the collaborator from one made by `new Error(...)` in index.ts.
JsError(msg) == [message |-> msg, upstream |-> FALSE]
UpstreamError(cause) == [message |-> cause, upstream |-> TRUE]

\* Result of an awaited async function: returned value or thrown error.
Returned(v) == [thrown |-> FALSE, value |-> Some(v), error |-> None]
Thrown(e) == [thrown |-> TRUE, value |-> None, error |-> Some(e)]

\* A response of the collaborator: an error, or a payload (possibly absent).
CallError(cause) == [failed |-> TRUE, cause |-> Some(cause), payload |-> None]
CallPayload(p) == [failed |-> FALSE, cause |-> None, payload |-> p]

\* ================================================================ ts/index.ts

\* ------------------------------------------------------------- JSON values
\* A JSON value by its kind. An object is a record whose fields are each
\* absent (None) or present (Some(value)).
Str(s) == [kind |-> "string", str |-> s]
Num(s) == [kind |-> "number", str |-> s]
Arr(elems) == [kind |-> "array", elems |-> elems]
\* A string where a list is expected.
StrForArr == [kind |-> "string", elems |-> <<>>]

\* ------------------------------------------------------------------ schemas
\* A schema applied to a value gives the path of the first field that
\* violates it, in the order of declaration, or NoViolation.
NoViolation == ""

RECURSIVE FirstViolation(_)
FirstViolation(vs) ==
    IF vs = <<>> THEN NoViolation
    ELSE IF Head(vs) # NoViolation THEN Head(vs)
    ELSE FirstViolation(Tail(vs))

\* z.string()
ZString(path, field) ==
    IF field = None \/ field[1].kind # "string" THEN path ELSE NoViolation

\* Variant of ZStringOptional without .optional().
ZStringOptionalRequired(path, field) ==
    IF field = None \/ field[1].kind # "string" THEN path ELSE NoViolation

\* z.string().optional()
ZStringOptional(path, field) ==
    IF field # None /\ field[1].kind # "string" THEN path ELSE NoViolation

\* Variant of PriceRanges that takes a value in any case (two of them shown).
PriceRangesAnyCase ==
    {"budget", "mid-range", "upscale", "fine-dining", "Budget", "BUDGET"}

\* z.enum(["budget", "mid-range", "upscale", "fine-dining"])
PriceRanges == {"budget", "mid-range", "upscale", "fine-dining"}

ZEnum(values, path, field) ==
    IF field = None \/ field[1].kind # "string" \/ field[1].str \notin values
    THEN path ELSE NoViolation

RestaurantInputSchema(input) ==
    FirstViolation(<<
        ZString("name", input.name),
        ZString("theme", input.theme),
        ZString("cuisineType", input.cuisineType),
        ZEnum(PriceRanges, "priceRange", input.priceRange),
        ZString("atmosphere", input.atmosphere),
        ZStringOptional("specialFeature", input.specialFeature) >>)

MenuItemSchema(path, item) ==
    FirstViolation(<<
        ZString(path \o ".name", item.name),
        ZString(path \o ".description", item.description),
        ZString(path \o ".price", item.price) >>)

\* Variant of ZArrayItems that looks at the first element only.
ZArrayItemsFirstOnly(path, elems, i) ==
    IF i > Len(elems) THEN NoViolation
    ELSE MenuItemSchema(path \o "[" \o ToString(i - 1) \o "]", elems[i])

\* The elements of z.array(MenuItemSchema), from the i-th on; JavaScript
\* counts them from 0.
RECURSIVE ZArrayItems(_, _, _)
ZArrayItems(path, elems, i) ==
    IF i > Len(elems) THEN NoViolation
    ELSE LET v == MenuItemSchema(path \o "[" \o ToString(i - 1) \o "]", elems[i])
         IN IF v # NoViolation THEN v ELSE ZArrayItems(path, elems, i + 1)

\* z.array(MenuItemSchema)
ZArray(path, field) ==
    IF field = None \/ field[1].kind # "array" THEN path
    ELSE ZArrayItems(path, field[1].elems, 1)

\* z.array(MenuItemSchema).optional()
ZArrayOptional(path, field) ==
    IF field = None THEN NoViolation ELSE ZArray(path, field)

RestaurantMenuSchema(menu) ==
    FirstViolation(<<
        ZString("restaurantName", menu.restaurantName),
        ZString("tagline", menu.tagline),
        ZArray("appetizers", menu.appetizers),
        ZArray("mains", menu.mains),
        ZArray("desserts", menu.desserts),
        ZArray("beverages", menu.beverages),
        ZArrayOptional("specialties", menu.specialties),
        ZString("funFact", menu.funFact),
        ZString("ambiance", menu.ambiance) >>)

MenuCardDesignSchema(design) ==
    FirstViolation(<<
        IF design.colorScheme = None THEN "colorScheme"
        ELSE LET c == design.colorScheme[1] IN
             FirstViolation(<<
                 ZString("colorScheme.primary", c.primary),
                 ZString("colorScheme.secondary", c.secondary),
                 ZString("colorScheme.background", c.background),
                 ZString("colorScheme.text", c.text) >>),
        IF design.typography = None THEN "typography"
        ELSE LET t == design.typography[1] IN
             FirstViolation(<<
                 ZString("typography.headerFont", t.headerFont),
                 ZString("typography.bodyFont", t.bodyFont),
                 ZString("typography.accent", t.accent) >>),
        ZString("layoutStyle", design.layoutStyle),
        ZString("decorativeElements", design.decorativeElements),
        ZString("backgroundTexture", design.backgroundTexture) >>)

\* An object field that must be there and satisfy a schema: violation is what
\* the schema gives on the value when the field is present.
ZObject(path, field, violation) ==
    IF field = None THEN path
    ELSE IF violation # NoViolation THEN path \o "." \o violation
    ELSE NoViolation

MenuCardDesignInputSchema(input) ==
    FirstViolation(<<
        ZObject("restaurantSpecs", input.restaurantSpecs,
                IF input.restaurantSpecs = None THEN NoViolation
                ELSE RestaurantInputSchema(input.restaurantSpecs[1])),
        ZObject("menuData", input.menuData,
                IF input.menuData = None THEN NoViolation
                ELSE RestaurantMenuSchema(input.menuData[1])) >>)

\* imagePath is the string generateMenuCardImage returns, absent when it
\* returned undefined.
CompleteRestaurantPackageSchema(package) ==
    FirstViolation(<<
        ZObject("restaurantSpecs", package.restaurantSpecs,
                IF package.restaurantSpecs = None THEN NoViolation
                ELSE RestaurantInputSchema(package.restaurantSpecs[1])),
        ZObject("menuData", package.menuData,
                IF package.menuData = None THEN NoViolation
                ELSE RestaurantMenuSchema(package.menuData[1])),
        ZObject("designSpecs", package.designSpecs,
                IF package.designSpecs = None THEN NoViolation
                ELSE MenuCardDesignSchema(package.designSpecs[1])),
        IF package.imagePath = None THEN "imagePath" ELSE NoViolation >>)

\* The error a flow throws when a value does not satisfy its inputSchema or
\* outputSchema: it names the path of the violation.
SchemaError(path) == JsError("Schema validation failed: " \o path)

\* -------------------------------------------------------------------- data
RestaurantInput(name, priceRange, specialFeature) ==
    [name |-> name, theme |-> Some(Str("space diner")),
     cuisineType |-> Some(Str("fusion comfort food")),
     priceRange |-> priceRange, atmosphere |-> Some(Str("quirky")),
     specialFeature |-> specialFeature]

\* The restaurantSpecs of main().
ExampleInput ==
    RestaurantInput(Some(Str("The Cosmic Cantina")), Some(Str("mid-range")),
                    Some(Str("LED-lit plates")))

\* What a caller may hand to completeRestaurantPackageFlow: name there or
\* not; priceRange one of the four values, another string, a number, or not
\* there; specialFeature not there, a string, or a number.
CallerInputs ==
    { RestaurantInput(n, p, f) :
        n \in {Some(Str("The Cosmic Cantina")), None},
        p \in {Some(Str(v)) : v \in PriceRanges \cup {"Budget", "cheap"}}
                \cup {None, Some(Num("2"))},
        f \in {None, Some(Str("LED-lit plates")), Some(Num("7"))} }

\* The inputs explored: every caller input when the flow is invoked once,
\* the example of main() when it is invoked concurrently.
RestaurantInputs == IF program = "ts1" THEN CallerInputs ELSE {ExampleInput}

Item(name, description, price) ==
    [name |-> name, description |-> description, price |-> price]
Dish == Item(Some(Str("Nebula Nachos")), Some(Str("crisp")), Some(Str("$9")))
DishNoPrice == Item(Some(Str("Comet Cake")), Some(Str("sweet")), None)
DishNoName == Item(None, Some(Str("hot")), Some(Str("$5")))
DishNumPrice == Item(Some(Str("Moon Pie")), Some(Str("round")), Some(Num("7")))

Menu(restaurantName, tagline, appetizers, mains, specialties) ==
    [restaurantName |-> Some(Str(restaurantName)), tagline |-> tagline,
     appetizers |-> appetizers, mains |-> mains,
     desserts |-> Some(Arr(<<>>)), beverages |-> Some(Arr(<<Dish>>)),
     specialties |-> specialties,
     funFact |-> Some(Str("built in a hangar")),
     ambiance |-> Some(Str("neon"))]

\* Structured outputs the model may produce for the menu prompt that satisfy
\* RestaurantMenuSchema: one without specialties, one with; their restaurant
\* names differ in a non-alphanumeric character only.
MenuOutputs ==
    { Menu(<<"A", "-", "B">>, Some(Str("Stillness, plated")),
           Some(Arr(<<Dish>>)), Some(Arr(<<>>)), None),
      Menu(<<"A", " ", "B">>, Some(Str("Out of this world")),
           Some(Arr(<<Dish, Dish>>)), Some(Arr(<<Dish>>)), Some(Arr(<<Dish>>))) }

\* Outputs that do not: tagline missing or a number, a list missing, an
\* element of a list without a field or with a field of the wrong kind,
\* specialties that is not a list or holds such an element.
InvalidMenuOutputs ==
    LET zen == <<"Z", "e", "n">>
        tag == Some(Str("Stillness, plated"))
        one == Some(Arr(<<Dish>>))
    IN { Menu(zen, None, one, one, None),
         Menu(zen, Some(Num("1")), one, one, None),
         Menu(zen, tag, None, one, None),
         Menu(zen, tag, Some(Arr(<<Dish, DishNoPrice, DishNoName>>)), one, None),
         Menu(zen, tag, one, Some(Arr(<<DishNoName>>)), None),
         Menu(zen, tag, one, Some(Arr(<<Dish, DishNumPrice>>)), Some(Arr(<<DishNoPrice>>))),
         Menu(zen, tag, one, one, Some(StrForArr)),
         Menu(zen, tag, one, one, Some(Arr(<<Dish, DishNoPrice>>))) }

Design(text, layoutStyle) ==
    [colorScheme |-> Some([primary |-> Some(Str("navy")),
                           secondary |-> Some(Str("gold")),
                           background |-> Some(Str("black")),
                           text |-> text]),
     typography |-> Some([headerFont |-> Some(Str("serif")),
                          bodyFont |-> Some(Str("sans")),
                          accent |-> Some(Str("mono"))]),
     layoutStyle |-> layoutStyle,
     decorativeElements |-> Some(Str("stars")),
     backgroundTexture |-> Some(Str("paper"))]

\* Structured outputs the model may produce for the design prompt: one that
\* satisfies MenuCardDesignSchema, and two that do not.
DesignOutputs == { Design(Some(Str("white")), Some(Str("modern"))) }
InvalidDesignOutputs ==
    { Design(None, Some(Str("modern"))), Design(Some(Str("white")), None) }

PromptTexts == { "Create a menu card image" }

\* What `await menuPrompt(input)` / `await designPrompt(input)` can give: the
\* call rejects, or resolves with { output } where output may be null. The
\* outputs that violate the schema are explored when the flow is invoked once.
MenuResponses ==
    {CallError(c) : c \in UpstreamCauses} \cup {CallPayload(None)}
        \cup {CallPayload(Some(m)) : m \in MenuOutputs}
        \cup (IF program = "ts1"
              THEN {CallPayload(Some(m)) : m \in InvalidMenuOutputs} ELSE {})
DesignResponses ==
    {CallError(c) : c \in UpstreamCauses} \cup {CallPayload(None)}
        \cup {CallPayload(Some(d)) : d \in DesignOutputs}
        \cup (IF program = "ts1"
              THEN {CallPayload(Some(d)) : d \in InvalidDesignOutputs} ELSE {})
\* What `await imagePrompt({...})` can give: rejects, or resolves with { text }.
TextResponses ==
    {CallError(c) : c \in UpstreamCauses}
        \cup {CallPayload(Some(t)) : t \in PromptTexts}

\* Parts, candidates and responses of model.generateContent.
TextPart == [text |-> Some("here is your card"), inlineData |-> None]
EmptyDataPart == [text |-> None, inlineData |-> Some([data |-> ""])]
ImagePart(d) == [text |-> None, inlineData |-> Some([data |-> d])]
Candidate(parts) == [content |-> Some([parts |-> parts])]
ImageContents ==
    { [candidates |-> None],
      [candidates |-> Some(<<[content |-> None]>>)],
      [candidates |-> Some(<<Candidate(Some(<<>>))>>)],
      [candidates |-> Some(<<Candidate(Some(<<TextPart, EmptyDataPart>>))>>)],
      [candidates |-> Some(<<Candidate(Some(<<TextPart, ImagePart("png1")>>))>>)] }
      \cup (IF program = "ts1"
            THEN { [candidates |-> Some(<<Candidate(Some(
                       <<EmptyDataPart, ImagePart("png2"), ImagePart("png3")>>))>>)] }
            ELSE {})
ImageResponses ==
    {CallError(c) : c \in UpstreamCauses}
        \cup {CallPayload(Some(c)) : c \in ImageContents}

MenuEmptyMessage == "Failed to generate restaurant menu"
DesignEmptyMessage == "Failed to generate menu card design specifications"
NoCandidatesMessage == "No candidates found in the response"
NoContentMessage == "No content found in the first candidate"
NoPartsMessage == "No parts found in the candidate content"
NoImageDataMessage == "No image data received from the model"

\* Variant of RestaurantMenuGeneratorFlow with a fallback in place of
\* `if (!output) throw`: an absent output is returned as a placeholder menu.
RestaurantMenuGeneratorFlowSwallow(resp) ==
    IF resp.failed THEN Thrown(UpstreamError(resp.cause[1]))
    ELSE IF resp.payload = None
    THEN Returned(Menu(<<>>, Some(Str("")), Some(Arr(<<>>)), Some(Arr(<<>>)), None))
    ELSE Returned(resp.payload[1])

\* Body of restaurantMenuGeneratorFlow after the prompt call has settled.
RestaurantMenuGeneratorFlow(resp) ==
    IF resp.failed THEN Thrown(UpstreamError(resp.cause[1]))
    ELSE IF resp.payload = None THEN Thrown(JsError(MenuEmptyMessage))
    ELSE Returned(resp.payload[1])

\* Body of menuCardDesignFlow after the prompt call has settled.
MenuCardDesignFlow(resp) ==
    IF resp.failed THEN Thrown(UpstreamError(resp.cause[1]))
    ELSE IF resp.payload = None THEN Thrown(JsError(DesignEmptyMessage))
    ELSE Returned(resp.payload[1])

\* Variant of OutputSchema that lets every returned value through.
OutputSchemaUnchecked(res, violation) == res

\* defineFlow({ outputSchema }): what the handler returned is checked against
\* the schema before the flow returns it; violation is what the schema gives
\* on the returned value.
OutputSchema(res, violation) ==
    IF res.thrown \/ violation = NoViolation THEN res
    ELSE Thrown(SchemaError(violation))

\* restaurantMenuGeneratorFlow as defineFlow runs it, after the prompt call
\* has settled: the handler, then outputSchema: RestaurantMenuSchema.
RestaurantMenuGeneratorFlowRun(resp) ==
    LET res == RestaurantMenuGeneratorFlow(resp)
    IN OutputSchema(res, IF res.thrown THEN NoViolation
                         ELSE RestaurantMenuSchema(res.value[1]))

\* menuCardDesignFlow as defineFlow runs it, after the prompt call has
\* settled: the handler, then outputSchema: MenuCardDesignSchema.
MenuCardDesignFlowRun(resp) ==
    LET res == MenuCardDesignFlow(resp)
    IN OutputSchema(res, IF res.thrown THEN NoViolation
                         ELSE MenuCardDesignSchema(res.value[1]))

\* generateMenuCardImage, first await: `const { text } = await imagePrompt(..)`
\* stands before the try block, so a rejection leaves the function as it is.
ImagePromptText(resp) ==
    IF resp.failed THEN Thrown(UpstreamError(resp.cause[1]))
    ELSE Returned(resp.payload[1])

\* `part.inlineData && part.inlineData.data`: an empty string is falsy.
HasInlineData(part) ==
    /\ part.inlineData # None
    /\ part.inlineData[1].data # ""

\* The for loop over parts: index of the first part that carries image data,
\* 0 when the loop ends without one.
RECURSIVE FirstImagePartFrom(_, _)
FirstImagePartFrom(parts, i) ==
    IF i > Len(parts) THEN 0
    ELSE IF HasInlineData(parts[i]) THEN i
    ELSE FirstImagePartFrom(parts, i + 1)

\* The checks of the try block on a response of generateContent: the image
\* data to save, or the Error thrown.
ExtractImageData(response) ==
    IF response.candidates = None \/ Len(response.candidates[1]) = 0
    THEN Thrown(JsError(NoCandidatesMessage))
    ELSE LET firstCandidate == response.candidates[1][1] IN
      IF firstCandidate.content = None
      THEN Thrown(JsError(NoContentMessage))
      ELSE LET parts == firstCandidate.content[1].parts IN
        IF parts = None \/ Len(parts[1]) = 0
        THEN Thrown(JsError(NoPartsMessage))
        ELSE LET i == FirstImagePartFrom(parts[1], 1) IN
          IF i = 0 THEN Thrown(JsError(NoImageDataMessage))
          ELSE Returned(parts[1][i].inlineData[1].data)

\* [a-zA-Z0-9]
AlphaNumeric ==
    { "a", "b", "c", "d", "e", "f", "g", "h", "i", "j", "k", "l", "m",
      "n", "o", "p", "q", "r", "s", "t", "u", "v", "w", "x", "y", "z",
      "A", "B", "C", "D", "E", "F", "G", "H", "I", "J", "K", "L", "M",
      "N", "O", "P", "Q", "R", "S", "T", "U", "V", "W", "X", "Y", "Z",
      "0", "1", "2", "3", "4", "5", "6", "7", "8", "9" }

\* menu.restaurantName.replace(/[^a-zA-Z0-9]/g, "_")
SanitizeName(name) ==
    [i \in 1..Len(name) |-> IF name[i] \in AlphaNumeric THEN name[i] ELSE "_"]

\* new Date().toISOString().replace(/[:.]/g, "-"): a fixed-width rendering of
\* the millisecond clock, one string per clock value.
Timestamp(t) == ToString(t)

OutputDir == "generated_menus"

\* path.join(outputDir, `menu_card_${...}_${timestamp}.png`)
MenuCardPath(restaurantName, t) ==
    <<OutputDir, "/", "menu_card_">> \o SanitizeName(restaurantName)
        \o <<"_", Timestamp(t), ".png">>

\* Variant of CatchRethrow without `throw error`: the catch block only logs,
\* and the function returns undefined.
CatchRethrowSwallow(res) ==
    IF res.thrown THEN Returned(<<>>) ELSE res

\* Variant of CatchRethrow that throws a new Error in place of the caught one.
CatchRethrowWrap(res) ==
    IF res.thrown THEN Thrown(JsError("Error generating menu card image")) ELSE res

\* The try/catch of generateMenuCardImage around what the try block did:
\* the catch block logs the error and throws the same error again.
CatchRethrow(res) == res

\* Variant of Continues with every await wrapped in a try/catch that goes on.
ContinuesAlways(res) == TRUE

\* `await f(...)` in completeRestaurantPackageFlow: the flow goes on to the
\* next statement only when the awaited promise fulfilled; a rejection
\* leaves the flow, which has no try/catch.
Continues(res) == ~res.thrown

\* ------------------------------------------------------------ history events
\* One entry of a run's log. ev: "invoke" (a step is entered), "call" (an
\* outbound call to the collaborator is issued), "ret" (that call settled,
\* resp is what it gave), "end" (the step returned, ok, or threw, ~ok).
\* A call event also holds what the call was given (args).
CallArgs(restaurantSpecs, menuData, designSpecs, text) ==
    [restaurantSpecs |-> restaurantSpecs, menuData |-> menuData,
     designSpecs |-> designSpecs, text |-> text]
NoArgs == CallArgs(None, None, None, None)
Event(ev, name, ok, resp) ==
    [ev |-> ev, name |-> name, ok |-> ok, resp |-> resp, args |-> NoArgs]
Invoke(step) == Event("invoke", step, TRUE, CallPayload(None))
Call(target) == Event("call", target, TRUE, CallPayload(None))
Ret(target, resp) == Event("ret", target, ~resp.failed, resp)
End(step, ok) == Event("end", step, ok, CallPayload(None))
CallWith(target, args) == [Call(target) EXCEPT !.args = args]
\* fs.writeFileSync(filepath, imageBuffer) has written the file.
Wrote(filepath, data) ==
    Event("write", "writeFileSync", TRUE, CallPayload(Some([path |-> filepath, data |-> data])))

NoResult == [thrown |-> FALSE, value |-> None, error |-> None]

TsWaiting == {"menu_wait", "design_wait", "text_wait", "image_wait"}

\* ------------------------------------------------------------------ actions

\* Variant of TsStart that starts the design flow without awaiting the menu
\* flow first.
TsStartNoAwait(r) ==
    /\ program \in TsPrograms
    /\ tsPc[r] = "idle"
    /\ \E input \in RestaurantInputs :
         tsInput' = [tsInput EXCEPT ![r] = Some(input)]
    /\ tsLog' = [tsLog EXCEPT ![r] = <<Invoke("menu"), Call("menuPrompt"),
                                       Invoke("design"), Call("designPrompt")>>]
    /\ tsPc' = [tsPc EXCEPT ![r] = "menu_wait"]
    /\ UNCHANGED <<program, tsMenu, tsDesign, tsText, tsResult, tsCancelled,
                   dirExists, files, clock, goVars>>

\* completeRestaurantPackageFlow(restaurantSpecs) is called. The flow checks
\* restaurantSpecs against its inputSchema, RestaurantInputSchema, and throws
\* without running its handler when it is violated. Otherwise the handler
\* runs up to its first await, inside restaurantMenuGeneratorFlow (whose
\* inputSchema is the same schema on the same value), with menuPrompt in
\* flight. In "ts1" the flow is invoked once.
TsStart(r) ==
    /\ program \in TsPrograms
    /\ tsPc[r] = "idle"
    /\ program = "ts1" => r = 1
    /\ \E input \in RestaurantInputs :
         LET violation == RestaurantInputSchema(input) IN
         /\ tsInput' = [tsInput EXCEPT ![r] = Some(input)]
         /\ IF violation # NoViolation
            THEN /\ tsResult' = [tsResult EXCEPT ![r] = Thrown(SchemaError(violation))]
                 /\ tsPc' = [tsPc EXCEPT ![r] = "rejected"]
                 /\ UNCHANGED tsLog
            ELSE /\ tsLog' = [tsLog EXCEPT ![r] =
                        <<Invoke("menu"),
                          CallWith("menuPrompt", CallArgs(Some(input), None, None, None))>>]
                 /\ tsPc' = [tsPc EXCEPT ![r] = "menu_wait"]
                 /\ UNCHANGED tsResult
    /\ UNCHANGED <<program, tsMenu, tsDesign, tsText, tsCancelled,
                   dirExists, files, clock, goVars>>

\* `menuCardDesignFlow({ restaurantSpecs, menuData })` in run r.
MenuCardDesignFlowInput(r, menuData) ==
    CallArgs(tsInput[r], menuData, None, None)

\* Variant of GenerateMenuCardImageInput that hands over a designSpecs
\* variable read before the design step's result is assigned to it.
GenerateMenuCardImageInputStale(r, designSpecs) ==
    CallArgs(tsInput[r], tsMenu[r], tsDesign[r], None)

\* `generateMenuCardImage(menuData, designSpecs, restaurantSpecs)` in run r,
\* handed on to imagePrompt({ menu, design, restaurantSpecs }).
GenerateMenuCardImageInput(r, designSpecs) ==
    CallArgs(tsInput[r], tsMenu[r], designSpecs, None)

\* Variant of TsMenuSettles that keeps menuData in a variable of the module,
\* one for all runs, in place of a const of the handler.
TsMenuSettlesShared(r, resp) ==
    LET res == RestaurantMenuGeneratorFlowRun(resp)
        log == tsLog[r] \o <<Ret("menuPrompt", resp), End("menu", ~res.thrown)>>
        input == MenuCardDesignFlowInput(r, res.value)
        violation == MenuCardDesignInputSchema(input)
    IN IF ~Continues(res)
       THEN /\ tsResult' = [tsResult EXCEPT ![r] = Thrown(res.error[1])]
            /\ tsLog' = [tsLog EXCEPT ![r] = log]
            /\ tsPc' = [tsPc EXCEPT ![r] = "failed"]
            /\ UNCHANGED tsMenu
       ELSE IF violation # NoViolation
       THEN /\ tsMenu' = [s \in Runs |-> res.value]
            /\ tsResult' = [tsResult EXCEPT ![r] = Thrown(SchemaError(violation))]
            /\ tsLog' = [tsLog EXCEPT ![r] =
                           log \o <<Invoke("design"), End("design", FALSE)>>]
            /\ tsPc' = [tsPc EXCEPT ![r] = "failed"]
       ELSE /\ tsMenu' = [s \in Runs |-> res.value]
            /\ tsLog' = [tsLog EXCEPT ![r] =
                           log \o <<Invoke("design"), CallWith("designPrompt", input)>>]
            /\ tsPc' = [tsPc EXCEPT ![r] = "design_wait"]
            /\ UNCHANGED tsResult

\* What run r does when menuPrompt has settled with resp: the rest of
\* restaurantMenuGeneratorFlow, then step 2 of the parent flow: the call of
\* menuCardDesignFlow({ restaurantSpecs, menuData }), which checks its input
\* against MenuCardDesignInputSchema and runs up to its await.
TsMenuSettles(r, resp) ==
    LET res == RestaurantMenuGeneratorFlowRun(resp)
        log == tsLog[r] \o <<Ret("menuPrompt", resp), End("menu", ~res.thrown)>>
        input == MenuCardDesignFlowInput(r, res.value)
        violation == MenuCardDesignInputSchema(input)
    IN IF ~Continues(res)
       THEN /\ tsResult' = [tsResult EXCEPT ![r] = Thrown(res.error[1])]
            /\ tsLog' = [tsLog EXCEPT ![r] = log]
            /\ tsPc' = [tsPc EXCEPT ![r] = "failed"]
            /\ UNCHANGED tsMenu
       ELSE IF violation # NoViolation
       THEN /\ tsMenu' = [tsMenu EXCEPT ![r] = res.value]
            /\ tsResult' = [tsResult EXCEPT ![r] = Thrown(SchemaError(violation))]
            /\ tsLog' = [tsLog EXCEPT ![r] =
                           log \o <<Invoke("design"), End("design", FALSE)>>]
            /\ tsPc' = [tsPc EXCEPT ![r] = "failed"]
       ELSE /\ tsMenu' = [tsMenu EXCEPT ![r] = res.value]
            /\ tsLog' = [tsLog EXCEPT ![r] =
                           log \o <<Invoke("design"), CallWith("designPrompt", input)>>]
            /\ tsPc' = [tsPc EXCEPT ![r] = "design_wait"]
            /\ UNCHANGED tsResult

\* Variant of TsMenuReturns that calls menuPrompt a second time when the
\* first call rejected.
TsMenuReturnsRetry(r) ==
    /\ program \in TsPrograms
    /\ tsPc[r] = "menu_wait"
    /\ \E resp \in MenuResponses :
         IF resp.failed /\ Len(tsLog[r]) = 2
         THEN /\ tsLog' = [tsLog EXCEPT ![r] =
                             @ \o <<Ret("menuPrompt", resp), Call("menuPrompt")>>]
              /\ UNCHANGED <<tsPc, tsMenu, tsResult>>
         ELSE TsMenuSettles(r, resp)
    /\ UNCHANGED <<program, tsInput, tsDesign, tsText, tsCancelled,
                   dirExists, files, clock, goVars>>

\* menuPrompt settles.
TsMenuReturns(r) ==
    /\ program \in TsPrograms
    /\ tsPc[r] = "menu_wait"
    /\ \E resp \in MenuResponses : TsMenuSettles(r, resp)
    /\ UNCHANGED <<program, tsInput, tsDesign, tsText, tsCancelled,
                   dirExists, files, clock, goVars>>

\* designPrompt settles: the rest of menuCardDesignFlow, then step 3 of the
\* parent flow up to the first await of generateMenuCardImage (imagePrompt).
TsDesignReturns(r) ==
    /\ program \in TsPrograms
    /\ tsPc[r] = "design_wait"
    /\ \E resp \in DesignResponses :
         LET res == MenuCardDesignFlowRun(resp)
             log == tsLog[r] \o <<Ret("designPrompt", resp), End("design", ~res.thrown)>>
             input == GenerateMenuCardImageInput(r, res.value)
         IN IF Continues(res)
            THEN /\ tsDesign' = [tsDesign EXCEPT ![r] = res.value]
                 /\ tsLog' = [tsLog EXCEPT ![r] =
                                log \o <<Invoke("image"), CallWith("imagePrompt", input)>>]
                 /\ tsPc' = [tsPc EXCEPT ![r] = "text_wait"]
                 /\ UNCHANGED tsResult
            ELSE /\ tsResult' = [tsResult EXCEPT ![r] = Thrown(res.error[1])]
                 /\ tsLog' = [tsLog EXCEPT ![r] = log]
                 /\ tsPc' = [tsPc EXCEPT ![r] = "failed"]
                 /\ UNCHANGED tsDesign
    /\ UNCHANGED <<program, tsInput, tsMenu, tsText, tsCancelled,
                   dirExists, files, clock, goVars>>

\* Variant of Package that returns the specifications of main's example
\* instead of the handler's parameter.
PackageOfExample(r, imagePath) ==
    [restaurantSpecs |-> Some(ExampleInput), menuData |-> tsMenu[r],
     designSpecs |-> tsDesign[r], imagePath |-> imagePath]

\* Variant of Package that leaves the path out:
\* `return { restaurantSpecs, menuData, designSpecs }`.
PackageWithoutPath(r, imagePath) ==
    [restaurantSpecs |-> tsInput[r], menuData |-> tsMenu[r],
     designSpecs |-> tsDesign[r], imagePath |-> None]

\* `return { restaurantSpecs, menuData, designSpecs, imagePath }` in run r.
Package(r, imagePath) ==
    [restaurantSpecs |-> tsInput[r], menuData |-> tsMenu[r],
     designSpecs |-> tsDesign[r], imagePath |-> imagePath]

\* completeRestaurantPackageFlow returns: what the handler returned is
\* checked against outputSchema: CompleteRestaurantPackageSchema.
CompleteRestaurantPackageFlowRun(package) ==
    OutputSchema(Returned(package), CompleteRestaurantPackageSchema(package))

\* Variant of TsImageSettles in which generateMenuCardImage writes the
\* sanitised name back: `menu.restaurantName = menu.restaurantName.replace(..)`.
TsImageSettlesRenames(r, res) ==
    /\ tsMenu' = [tsMenu EXCEPT ![r] =
                    Some([@[1] EXCEPT !.restaurantName =
                            Some(Str(SanitizeName(@[1].str)))])]
    /\ IF Continues(res)
       THEN /\ tsResult' = [tsResult EXCEPT ![r] = Returned(
                   [restaurantSpecs |-> tsInput[r], menuData |-> tsMenu'[r],
                    designSpecs |-> tsDesign[r], imagePath |-> res.value])]
            /\ tsPc' = [tsPc EXCEPT ![r] = "done"]
       ELSE /\ tsResult' = [tsResult EXCEPT ![r] = Thrown(res.error[1])]
            /\ tsPc' = [tsPc EXCEPT ![r] = "failed"]
    /\ UNCHANGED <<tsInput, tsDesign>>

\* The end of run r when generateMenuCardImage has settled with res.
\* restaurantSpecs, menuData and designSpecs are consts of the handler, and
\* generateMenuCardImage only reads its arguments.
TsImageSettles(r, res) ==
    /\ IF Continues(res)
       THEN LET out == CompleteRestaurantPackageFlowRun(Package(r, res.value))
            IN /\ tsResult' = [tsResult EXCEPT ![r] = out]
               /\ tsPc' = [tsPc EXCEPT ![r] = IF out.thrown THEN "failed" ELSE "done"]
       ELSE /\ tsResult' = [tsResult EXCEPT ![r] = Thrown(res.error[1])]
            /\ tsPc' = [tsPc EXCEPT ![r] = "failed"]
    /\ UNCHANGED <<tsInput, tsMenu, tsDesign>>

\* imagePrompt settles inside generateMenuCardImage: on success the function
\* enters the try block and issues model.generateContent([text]).
TsTextReturns(r) ==
    /\ program \in TsPrograms
    /\ tsPc[r] = "text_wait"
    /\ \E resp \in TextResponses :
         LET res == ImagePromptText(resp)
             log == tsLog[r] \o <<Ret("imagePrompt", resp)>>
         IN IF ~res.thrown
            THEN /\ tsText' = [tsText EXCEPT ![r] = res.value]
                 /\ tsLog' = [tsLog EXCEPT ![r] = log \o
                        <<CallWith("generateContent",
                                   CallArgs(None, None, None, res.value))>>]
                 /\ tsPc' = [tsPc EXCEPT ![r] = "image_wait"]
                 /\ UNCHANGED <<tsResult, tsInput, tsMenu, tsDesign>>
            ELSE /\ TsImageSettles(r, res)
                 /\ tsLog' = [tsLog EXCEPT ![r] = log \o <<End("image", FALSE)>>]
                 /\ UNCHANGED tsText
    /\ UNCHANGED <<program, tsCancelled, dirExists, files, clock, goVars>>

\* Where the synchronous file-system calls of the try block may throw:
\* mkdirSync, or writeFileSync when it opens the file ("open": nothing is
\* created) or while it writes the buffer ("write": the file was created or
\* truncated by the open and is left with a part of the data).
FsFaults == {"none", "mkdir", "open", "write"}
\* The content of a file whose write did not complete.
Truncated == "(truncated)"
FsErrorMessage == "EACCES: permission denied"
\* menu.restaurantName on an undefined menu.
TypeErrorMessage == "Cannot read properties of undefined"
\* fs.writeFileSync into a directory that is not there.
NoDirMessage == "ENOENT: no such file or directory"

\* Variant of CreatesOutputDir without the mkdirSync call.
CreatesOutputDirNever(exists) == FALSE

\* `if (!fs.existsSync(outputDir)) fs.mkdirSync(outputDir, ...)`: the
\* directory is created when it is not there.
CreatesOutputDir(exists) == ~exists

\* generateContent settles: the try block (response checks, mkdir, file
\* write), the catch block, then the return of the parent flow.
TsImageReturns(r) ==
    /\ program \in TsPrograms
    /\ tsPc[r] = "image_wait"
    /\ \E resp \in ImageResponses, fault \in FsFaults, now \in clock..MaxClock :
         LET data == IF resp.failed THEN Thrown(UpstreamError(resp.cause[1]))
                     ELSE ExtractImageData(resp.payload[1])
             createsDir == ~data.thrown /\ CreatesOutputDir(dirExists)
             mkdirThrows == createsDir /\ fault = "mkdir"
             dirAfter == dirExists \/ (createsDir /\ ~mkdirThrows)
             readsClock == ~data.thrown /\ ~mkdirThrows
             filepath == MenuCardPath(tsMenu[r][1].restaurantName[1].str, now)
             \* data: the checks on the response; tried: the whole try block
             tried == IF data.thrown THEN data
                      ELSE IF fault = "mkdir" THEN Thrown(JsError(FsErrorMessage))
                      ELSE IF tsMenu[r] = None THEN Thrown(JsError(TypeErrorMessage))
                      ELSE IF fault = "open" THEN Thrown(JsError(FsErrorMessage))
                      ELSE IF ~dirAfter THEN Thrown(JsError(NoDirMessage))
                      ELSE IF fault = "write" THEN Thrown(JsError(FsErrorMessage))
                      ELSE Returned(filepath)
             \* writeFileSync has opened the file with flag "w"
             opened == /\ ~data.thrown /\ tsMenu[r] # None /\ dirAfter
                       /\ fault \in {"none", "write"}
             res == CatchRethrow(tried)
             log == tsLog[r] \o <<Ret("generateContent", resp)>>
                      \o (IF tried.thrown THEN <<>>
                          ELSE <<Wrote(filepath, data.value[1])>>)
                      \o <<End("image", ~res.thrown)>>
         IN /\ data.thrown => fault = "none"
            /\ fault = "mkdir" => createsDir
            /\ ~readsClock => now = clock
            /\ clock' = now
            /\ dirExists' = dirAfter
            /\ files' = IF opened
                        THEN {f \in files : f.path # filepath}
                                \cup {[path |-> filepath, run |-> r,
                                       data |-> IF fault = "write" THEN Truncated
                                                ELSE data.value[1]]}
                        ELSE files
            /\ tsLog' = [tsLog EXCEPT ![r] = log]
            /\ TsImageSettles(r, res)
    /\ UNCHANGED <<program, tsText, tsCancelled, goVars>>

\* The caller of a run gives up (a cancellation signal, a timeout) while a
\* call is in flight. The flow handler takes restaurantSpecs only and hands no
\* signal to the child flows or to generateContent: nothing in index.ts reads
\* the flag, and only the exploration of one invocation (Spec1) sets it.
TsCancel(r) ==
    /\ program \in TsPrograms
    /\ tsPc[r] \in TsWaiting
    /\ ~tsCancelled[r]
    /\ tsCancelled' = [tsCancelled EXCEPT ![r] = TRUE]
    /\ UNCHANGED <<program, tsPc, tsInput, tsMenu, tsDesign, tsText, tsResult,
                   tsLog, dirExists, files, clock, goVars>>

\* ================================================================= go/main.go

StatusOK == 200
StatusBadRequest == 400
StatusInternalServerError == 500

DefaultServingSize == 4

Whitespace == {" ", "\t", "\n", "\r"}

\* strings.TrimSpace: leading and trailing white space removed.
RECURSIVE TrimLeft(_)
TrimLeft(s) ==
    IF s # <<>> /\ Head(s) \in Whitespace THEN TrimLeft(Tail(s)) ELSE s
RECURSIVE TrimRight(_)
TrimRight(s) ==
    IF s # <<>> /\ s[Len(s)] \in Whitespace
    THEN TrimRight(SubSeq(s, 1, Len(s) - 1)) ELSE s
TrimSpace(s) == TrimRight(TrimLeft(s))

FoodInput(name, dietary, difficulty, servings) ==
    [FoodName |-> name, DietaryRestrictions |-> dietary,
     Difficulty |-> difficulty, ServingSize |-> servings]

\* The input of the sample run of main.
SampleInput ==
    FoodInput(<<"P", "a", "s", "t", "a", " ", "C", "a", "r", "b", "o", "n", "a", "r", "a">>,
              "", "medium", 4)

\* Inputs a request body can decode to: no foodName, a blank one, a name with
\* every option omitted, a padded name with every option given.
FoodInputs ==
    { FoodInput(<<>>, "", "", 0),
      FoodInput(<<" ", "\t">>, "", "easy", 0),
      FoodInput(<<"P", "h", "o">>, "", "", 0),
      FoodInput(<<" ", "D", "a", "l">>, "vegan", "easy", 6) }

\* A request body: one json.Decoder.Decode fails on, or one that decodes.
Bodies ==
    {[decodes |-> FALSE, input |-> FoodInput(<<>>, "", "", 0)]}
        \cup {[decodes |-> TRUE, input |-> i] : i \in FoodInputs}

Methods == {"POST", "OPTIONS"}

FoodRecipe(name, servings) ==
    [Name |-> name, Servings |-> servings, Description |-> "a dish"]

\* Values genkit.GenerateData[FoodRecipe] may decode from the model's answer.
Recipes ==
    { FoodRecipe(<<>>, 0), FoodRecipe(<<"P", "h", "o">>, 0),
      FoodRecipe(<<"S", "o", "u", "p">>, 2) }

ContextCanceled == "context canceled"

\* What GenerateData can give: an error of the collaborator, the context's
\* error when ctx is cancelled while the call is in flight, or a recipe (also
\* with ctx cancelled: the answer may arrive first).
GenerateResponses(cancelled) ==
    {CallError(c) : c \in UpstreamCauses}
        \cup {CallPayload(Some(rc)) : rc \in Recipes}
        \cup (IF cancelled THEN {CallError(ContextCanceled)} ELSE {})

\* A Go error value / the text it renders to: message, the food name
\* formatted into it, the wrapped cause.
GoError(msg, food, cause) == [msg |-> msg, food |-> food, cause |-> cause]
FoodNameRequired == GoError("food name is required", <<>>, None)
GenerateFailed(food, cause) ==
    GoError("failed to generate recipe for", food, Some(cause))

\* What foodRecipeFlow returns: (*FoodRecipe, error).
FlowOk(recipe) == [recipe |-> Some(recipe), err |-> None]
FlowErr(e) == [recipe |-> None, err |-> Some(e)]
NoFlow == [recipe |-> None, err |-> None]

\* Variant of InputRejected without strings.TrimSpace: `input.FoodName == ""`.
InputRejectedEmptyOnly(input) == input.FoodName = <<>>

\* foodRecipeFlow, "Validate input".
InputRejected(input) == TrimSpace(input.FoodName) = <<>>

\* Variant of PromptArgs that formats input.ServingSize and
\* input.DietaryRestrictions into the prompt instead of the locals.
PromptArgsInputAsGiven(input) ==
    [food |-> input.FoodName,
     difficulty |-> IF input.Difficulty = "" THEN "medium" ELSE input.Difficulty,
     servingSize |-> input.ServingSize,
     dietaryRestrictions |-> input.DietaryRestrictions]

\* foodRecipeFlow, "Set default values", and the arguments of the prompt.
PromptArgs(input) ==
    [food |-> input.FoodName,
     difficulty |-> IF input.Difficulty = "" THEN "medium" ELSE input.Difficulty,
     servingSize |-> IF input.ServingSize = 0 THEN DefaultServingSize
                     ELSE input.ServingSize,
     dietaryRestrictions |-> IF input.DietaryRestrictions = "" THEN "none"
                             ELSE input.DietaryRestrictions]

\* Variant of FoodRecipeFlowReturn without the two `if` blocks after the
\* call: the recipe is returned as GenerateData decoded it.
FoodRecipeFlowReturnAsDecoded(input, resp) ==
    IF resp.failed
    THEN FlowErr(GenerateFailed(input.FoodName, resp.cause[1]))
    ELSE FlowOk(resp.payload[1])

\* Variant of FoodRecipeFlowReturn without `if err != nil`: a failed call
\* yields a recipe made of the defaults.
FoodRecipeFlowReturnIgnoreErr(input, resp) ==
    IF resp.failed THEN FlowOk(FoodRecipe(input.FoodName, PromptArgs(input).servingSize))
    ELSE FlowOk(resp.payload[1])

\* Variant of FoodRecipeFlowReturn that sets the name and the servings of
\* every recipe, also of one that has them.
FoodRecipeFlowReturnOverwrite(input, resp) ==
    IF resp.failed
    THEN FlowErr(GenerateFailed(input.FoodName, resp.cause[1]))
    ELSE FlowOk([resp.payload[1] EXCEPT
                   !.Name = input.FoodName,
                   !.Servings = PromptArgs(input).servingSize])

\* foodRecipeFlow after GenerateData has returned.
FoodRecipeFlowReturn(input, resp) ==
    IF resp.failed
    THEN FlowErr(GenerateFailed(input.FoodName, resp.cause[1]))
    ELSE LET recipe == resp.payload[1] IN
         FlowOk([recipe EXCEPT
                   !.Name = IF recipe.Name = <<>> THEN input.FoodName ELSE @,
                   !.Servings = IF recipe.Servings = 0
                                THEN PromptArgs(input).servingSize ELSE @])

\* A response as the client sees it: status, the ErrorResponse fields or the
\* recipe, and who wrote it (the ServeMux or the handler).
Response(by, status, error, message, recipe) ==
    [by |-> by, status |-> status, error |-> error, message |-> message,
     recipe |-> recipe]

\* Variant of InvalidJSONResponse without WriteHeader(http.StatusBadRequest).
InvalidJSONResponseNoStatus ==
    Response("handler", StatusOK, "Invalid JSON",
             Some(GoError("Please provide valid JSON input", <<>>, None)), None)

\* The handler's answer to a body that does not decode.
InvalidJSONResponse ==
    Response("handler", StatusBadRequest, "Invalid JSON",
             Some(GoError("Please provide valid JSON input", <<>>, None)), None)

\* Variant of FlowResponse without WriteHeader(500): the error body goes out
\* with the default status.
FlowResponseAlwaysOK(flow) ==
    IF flow.err # None
    THEN Response("handler", StatusOK, "Recipe Generation Failed", flow.err, None)
    ELSE Response("handler", StatusOK, "", None, flow.recipe)

\* The handler's answer to what foodRecipeFlow.Run returned.
FlowResponse(flow) ==
    IF flow.err # None
    THEN Response("handler", StatusInternalServerError,
                  "Recipe Generation Failed", flow.err, None)
    ELSE Response("handler", StatusOK, "", None, flow.recipe)

\* The handler's answer to OPTIONS: WriteHeader(200), no body.
OptionsResponse == Response("handler", StatusOK, "", None, None)

\* The pattern "POST /api/recipe": the ServeMux hands the handler POST
\* requests only and answers any other method on that path itself, with
\* 405 Method Not Allowed (no JSON body, none of the handler's headers).
RoutedToHandler(method) == method = "POST"
MuxResponse == Response("mux", 405, "", None, None)

\* main is started: Genkit is initialised, the flow defined, and the sample
\* run is suspended in GenerateData. When it returns, foodRecipeFlow.Run
\* gives main the recipe or the error.
GoSampleReturns ==
    /\ program = "go"
    /\ goMain = "sample_wait"
    /\ \E resp \in GenerateResponses(FALSE) :
         /\ goSample' = FoodRecipeFlowReturn(SampleInput, resp)
         /\ goLog' = [goLog EXCEPT ![0] = @ \o
                        <<Ret("GenerateData", resp), End("foodRecipeFlow", ~resp.failed)>>]
    /\ goMain' = "sample_done"
    /\ UNCHANGED <<program, tsVars, goPc, goReq, goDefaults, goFlow, goWrites,
                   goCancelled>>

\* Variant of GoServe in which main gives up on a failed sample run:
\* `log.Fatalf("Test failed: %v", err)`.
GoServeUnlessFailed ==
    /\ program = "go"
    /\ goMain = "sample_done"
    /\ goMain' = IF goSample.err # None THEN "exited" ELSE "serving"
    /\ UNCHANGED <<program, tsVars, goSample, goPc, goReq, goDefaults, goFlow,
                   goWrites, goLog, goCancelled>>

\* The rest of main: the outcome of the sample run is logged (log.Printf on
\* an error, the recipe otherwise), the routes are registered and
\* server.Start listens on 127.0.0.1:8080.
GoServe ==
    /\ program = "go"
    /\ goMain = "sample_done"
    /\ goMain' = "serving"
    /\ UNCHANGED <<program, tsVars, goSample, goPc, goReq, goDefaults, goFlow,
                   goWrites, goLog, goCancelled>>

\* A request for /api/recipe arrives: the ServeMux routes it; the handler
\* runs up to its answer or up to GenerateData inside foodRecipeFlow.
GoRequest(q) ==
    /\ program = "go"
    /\ goMain = "serving"
    /\ goPc[q] = "new"
    /\ \E method \in Methods, body \in Bodies :
         /\ goReq' = [goReq EXCEPT ![q] = Some([method |-> method, body |-> body])]
         /\ IF ~RoutedToHandler(method)
            THEN /\ goWrites' = [goWrites EXCEPT ![q] = <<MuxResponse>>]
                 /\ goPc' = [goPc EXCEPT ![q] = "done"]
                 /\ UNCHANGED <<goFlow, goLog, goDefaults>>
            ELSE IF method = "OPTIONS"
            THEN /\ goWrites' = [goWrites EXCEPT ![q] = <<OptionsResponse>>]
                 /\ goPc' = [goPc EXCEPT ![q] = "done"]
                 /\ UNCHANGED <<goFlow, goLog, goDefaults>>
            ELSE IF ~body.decodes
            THEN /\ goWrites' = [goWrites EXCEPT ![q] = <<InvalidJSONResponse>>]
                 /\ goPc' = [goPc EXCEPT ![q] = "done"]
                 /\ UNCHANGED <<goFlow, goLog, goDefaults>>
            ELSE IF InputRejected(body.input)
            THEN /\ goFlow' = [goFlow EXCEPT ![q] = FlowErr(FoodNameRequired)]
                 /\ goLog' = [goLog EXCEPT ![q] =
                       <<Invoke("foodRecipeFlow"), End("foodRecipeFlow", FALSE)>>]
                 /\ goWrites' = [goWrites EXCEPT ![q] =
                                   <<FlowResponse(FlowErr(FoodNameRequired))>>]
                 /\ goPc' = [goPc EXCEPT ![q] = "done"]
                 /\ UNCHANGED goDefaults
            ELSE /\ goDefaults' = [goDefaults EXCEPT ![q] = Some(PromptArgs(body.input))]
                 /\ goLog' = [goLog EXCEPT ![q] =
                       <<Invoke("foodRecipeFlow"), Call("GenerateData")>>]
                 /\ goPc' = [goPc EXCEPT ![q] = "gen_wait"]
                 /\ UNCHANGED <<goFlow, goWrites>>
    /\ UNCHANGED <<program, tsVars, goMain, goSample, goCancelled>>

\* What request q's run does when GenerateData has returned resp: the rest of
\* foodRecipeFlow and of the handler.
GoGenerateSettles(q, resp) ==
    LET flow == FoodRecipeFlowReturn(goReq[q][1].body.input, resp) IN
    /\ goFlow' = [goFlow EXCEPT ![q] = flow]
    /\ goLog' = [goLog EXCEPT ![q] = @ \o
                   <<Ret("GenerateData", resp), End("foodRecipeFlow", flow.err = None)>>]
    /\ goWrites' = [goWrites EXCEPT ![q] = @ \o <<FlowResponse(flow)>>]
    /\ goPc' = [goPc EXCEPT ![q] = "done"]

\* Variant of GoGenerateReturns that calls GenerateData a second time when
\* the first call returned an error.
GoGenerateReturnsRetry(q) ==
    /\ program = "go"
    /\ goPc[q] = "gen_wait"
    /\ \E resp \in GenerateResponses(goCancelled[q]) :
         IF resp.failed /\ Len(goLog[q]) = 2
         THEN /\ goLog' = [goLog EXCEPT ![q] =
                             @ \o <<Ret("GenerateData", resp), Call("GenerateData")>>]
              /\ UNCHANGED <<goFlow, goWrites, goPc>>
         ELSE GoGenerateSettles(q, resp)
    /\ UNCHANGED <<program, tsVars, goMain, goSample, goReq, goDefaults,
                   goCancelled>>

\* GenerateData returns inside a request's run.
GoGenerateReturns(q) ==
    /\ program = "go"
    /\ goPc[q] = "gen_wait"
    /\ \E resp \in GenerateResponses(goCancelled[q]) : GoGenerateSettles(q, resp)
    /\ UNCHANGED <<program, tsVars, goMain, goSample, goReq, goDefaults,
                   goCancelled>>

\* The client of a request goes away while GenerateData is in flight:
\* r.Context(), which the handler hands to the flow and the flow to
\* GenerateData, is cancelled.
GoCancel(q) ==
    /\ program = "go"
    /\ goPc[q] = "gen_wait"
    /\ ~goCancelled[q]
    /\ goCancelled' = [goCancelled EXCEPT ![q] = TRUE]
    /\ UNCHANGED <<program, tsVars, goMain, goSample, goPc, goReq, goDefaults,
                   goFlow, goWrites, goLog>>

\* ============================================================ specification

\* The state after construction, whichever program runs.
InitRest ==
    /\ tsPc = [r \in Runs |-> "idle"]
    /\ tsInput = [r \in Runs |-> None]
    /\ tsMenu = [r \in Runs |-> None]
    /\ tsDesign = [r \in Runs |-> None]
    /\ tsText = [r \in Runs |-> None]
    /\ tsResult = [r \in Runs |-> NoResult]
    /\ tsLog = [r \in Runs |-> <<>>]
    /\ tsCancelled = [r \in Runs |-> FALSE]
    /\ dirExists = FALSE    \* created by the first run that gets to write
    /\ files = {}
    /\ clock = 0
    /\ goMain = "sample_wait"
    /\ goSample = NoFlow
    /\ goPc = [q \in Reqs |-> "new"]
    /\ goReq = [q \in Reqs |-> None]
    /\ goDefaults = [q \in Reqs |-> None]
    /\ goFlow = [q \in Reqs |-> NoFlow]
    /\ goWrites = [q \in Reqs |-> <<>>]
    /\ goLog = [q \in 0..MaxReqs |->
                  IF q = 0 THEN <<Invoke("foodRecipeFlow"), Call("GenerateData")>>
                  ELSE <<>>]
    /\ goCancelled = [q \in Reqs |-> FALSE]

Init ==
    /\ program \in {"ts", "go"}
    /\ InitRest

Next ==
    \/ \E r \in Runs : TsStart(r)
    \/ \E r \in Runs : TsMenuReturns(r)
    \/ \E r \in Runs : TsDesignReturns(r)
    \/ \E r \in Runs : TsTextReturns(r)
    \/ \E r \in Runs : TsImageReturns(r)
    \/ GoSampleReturns
    \/ GoServe
    \/ \E q \in Reqs : GoRequest(q)
    \/ \E q \in Reqs : GoGenerateReturns(q)
    \/ \E q \in Reqs : GoCancel(q)

Spec == Init /\ [][Next]_vars

\* One invocation of completeRestaurantPackageFlow on every input and model
\* output of the data sets, or the Go service.
Init1 ==
    /\ program \in {"ts1", "go"}
    /\ InitRest

\* The caller of the one invocation may also give up on it.
Next1 ==
    \/ Next
    \/ \E r \in Runs : TsCancel(r)

Spec1 == Init1 /\ [][Next1]_vars

\* The Go service alone. main runs on one goroutine from the return of the
\* sample run to server.Start without waiting for anything, so its step to
\* the listening server is taken once it is enabled.
InitGo ==
    /\ program = "go"
    /\ InitRest

NextGo ==
    \/ GoSampleReturns
    \/ GoServe
    \/ \E q \in Reqs : GoRequest(q)
    \/ \E q \in Reqs : GoGenerateReturns(q)
    \/ \E q \in Reqs : GoCancel(q)

SpecGo == InitGo /\ [][NextGo]_vars /\ WF_vars(GoServe)

\* ================================================================ properties

PipelineSteps == <<"menu", "design", "image">>

\* The outbound calls that belong to a step.
StepTargets(step) ==
    CASE step = "menu" -> {"menuPrompt"}
      [] step = "design" -> {"designPrompt"}
      [] step = "image" -> {"imagePrompt", "generateContent"}
      [] step = "foodRecipeFlow" -> {"GenerateData"}

\* Positions of a log that hold an event of kind ev with a name in names.
Positions(log, ev, names) ==
    {i \in 1..Len(log) : log[i].ev = ev /\ log[i].name \in names}

AllTargets == {"menuPrompt", "designPrompt", "imagePrompt", "generateContent", "GenerateData"}
AllSteps == {"menu", "design", "image", "foodRecipeFlow"}

\* ---------------------------------------------------------------------- C1
\* C1: in every run of completeRestaurantPackageFlow, once a step of the
\* sequence menu, design, image has failed, no later step is invoked and no
\* outbound call is issued in that run.
C1_NoStepAfterFailure ==
    \A r \in Runs :
      \A i \in Positions(tsLog[r], "end", AllSteps) :
        ~tsLog[r][i].ok =>
          /\ \A j \in (i + 1)..Len(tsLog[r]) : tsLog[r][j].ev \notin {"invoke", "call"}
          /\ tsPc[r] = "failed"

\* C1 witness: a run whose design step failed after a successful menu step.
C1_Witness ==
    \E r \in Runs :
      /\ \E i \in Positions(tsLog[r], "end", {"design"}) : ~tsLog[r][i].ok
      /\ \E i \in Positions(tsLog[r], "end", {"menu"}) : tsLog[r][i].ok
      /\ Positions(tsLog[r], "invoke", {"image"}) = {}

\* ---------------------------------------------------------------------- C2
\* Calls issued and not yet settled within the first n events of a log.
InFlight(log, n) ==
    Cardinality({i \in Positions(log, "call", AllTargets) : i <= n})
      - Cardinality({i \in Positions(log, "ret", AllTargets) : i <= n})

\* The names of the steps invoked, in the order of their invocation.
InvokedSteps(log) ==
    LET inv == SelectSeq(log, LAMBDA e : e.ev = "invoke")
    IN [k \in 1..Len(inv) |-> inv[k].name]

\* C2: a run executes its steps one after the other in the order menu,
\* design, image: the steps invoked so far are a prefix of that sequence, a
\* step is invoked only after the step before it has ended successfully, and
\* a step is invoked or a call issued only when no earlier call is in flight.
C2_SequentialFixedOrder ==
    \A r \in Runs :
      LET log == tsLog[r]
          steps == InvokedSteps(log)
      IN /\ Len(steps) <= Len(PipelineSteps)
         /\ \A k \in 1..Len(steps) : steps[k] = PipelineSteps[k]
         /\ \A i \in 1..Len(log) :
              log[i].ev \in {"invoke", "call"} => InFlight(log, i - 1) = 0
         /\ \A k \in 2..Len(steps) :
              \E i \in Positions(log, "invoke", {PipelineSteps[k]}) :
                \E j \in Positions(log, "end", {PipelineSteps[k - 1]}) :
                  j < i /\ log[j].ok

\* C2 witness: a run that went through all three steps and returned.
C2_Witness ==
    \E r \in Runs :
      /\ tsPc[r] = "done"
      /\ InvokedSteps(tsLog[r]) = PipelineSteps
      /\ Cardinality(Positions(tsLog[r], "ret", AllTargets)) = 4

\* ---------------------------------------------------------------------- C3
\* The steps that have ended in a log.
EndedSteps(log) == {log[i].name : i \in Positions(log, "end", AllSteps)}

\* Outbound calls a step has issued in a log.
CallsOf(log, step) == Cardinality(Positions(log, "call", StepTargets(step)))

\* The steps that have run to a successful end in a log.
CompletedSteps(log) ==
    {log[i].name : i \in {j \in Positions(log, "end", AllSteps) : log[j].ok}}

\* C3 as stated, for the steps that ran to their end: every such step, in the
\* TS pipeline and in the Go service, has made exactly one outbound call.
C3_ExactlyOneCallPerStep ==
    /\ \A r \in Runs : \A step \in CompletedSteps(tsLog[r]) :
         CallsOf(tsLog[r], step) = 1
    /\ \A q \in 0..MaxReqs : \A step \in CompletedSteps(goLog[q]) :
         CallsOf(goLog[q], step) = 1

\* C3, amended: the menu step and the design step make exactly one outbound
\* call each; the image step makes two, the prompt-text call and then the
\* image call, the second only when the first succeeded; foodRecipeFlow makes
\* exactly one call when foodName passes validation and none otherwise.
C3_CallsPerStep ==
    /\ \A r \in Runs : \A step \in EndedSteps(tsLog[r]) :
         CallsOf(tsLog[r], step) =
           IF step # "image" THEN 1
           ELSE IF \E i \in Positions(tsLog[r], "ret", {"imagePrompt"}) : tsLog[r][i].ok
                THEN 2 ELSE 1
    /\ \A q \in Reqs : \A step \in EndedSteps(goLog[q]) :
         CallsOf(goLog[q], step) =
           IF InputRejected(goReq[q][1].body.input) THEN 0 ELSE 1
    /\ \A step \in EndedSteps(goLog[0]) : CallsOf(goLog[0], step) = 1

\* C3 witness: an image step that has ended after both of its calls.
C3_Witness ==
    \E r \in Runs :
      /\ "image" \in EndedSteps(tsLog[r])
      /\ CallsOf(tsLog[r], "image") = 2
      /\ CallsOf(tsLog[r], "menu") = 1

\* ---------------------------------------------------------------------- C4
\* No call is issued in a log after a call of that log has failed.
NoCallAfterFailedCall(log) ==
    \A i \in Positions(log, "ret", AllTargets) :
      ~log[i].ok => \A j \in (i + 1)..Len(log) : log[j].ev # "call"

\* C4: no retries: once an outbound generation call of a run has failed, the
\* run issues no further outbound call, in the TS pipeline and in the Go
\* foodRecipeFlow (requests and sample run).
C4_NoCallAfterFailedCall ==
    /\ \A r \in Runs : NoCallAfterFailedCall(tsLog[r])
    /\ \A q \in 0..MaxReqs : NoCallAfterFailedCall(goLog[q])

\* C4 witness: the prompt-text call of an image step has failed and the run
\* has ended without the image call.
C4_Witness ==
    \E r \in Runs :
      /\ \E i \in Positions(tsLog[r], "ret", {"imagePrompt"}) : ~tsLog[r][i].ok
      /\ Positions(tsLog[r], "call", {"generateContent"}) = {}
      /\ tsPc[r] = "failed"

\* ---------------------------------------------------------------------- C5
\* A response of generateContent that holds no image: no candidates, a first
\* candidate without content, content without parts, or no part with inline
\* image data.
NoImage(content) ==
    IF content.candidates = None THEN TRUE
    ELSE IF content.candidates[1] = <<>> THEN TRUE
    ELSE IF content.candidates[1][1].content = None THEN TRUE
    ELSE IF content.candidates[1][1].content[1].parts = None THEN TRUE
    ELSE LET parts == content.candidates[1][1].content[1].parts[1] IN
         \A k \in 1..Len(parts) :
           \/ parts[k].inlineData = None
           \/ parts[k].inlineData[1].data = ""

\* A call that settled without error and without a usable payload.
NoUsablePayload(e) ==
    /\ e.ev = "ret"
    /\ ~e.resp.failed
    /\ CASE e.name \in {"menuPrompt", "designPrompt"} -> e.resp.payload = None
         [] e.name = "generateContent" -> NoImage(e.resp.payload[1])
         [] OTHER -> FALSE

\* C5: a step whose collaborator call returned without a usable payload ends
\* in failure: the step's end is a failure, the run has thrown and holds no
\* value.
C5_NoPayloadIsFailure ==
    \A r \in Runs :
      \A i \in 1..Len(tsLog[r]) :
        NoUsablePayload(tsLog[r][i]) =>
          /\ i < Len(tsLog[r])
          /\ tsLog[r][i + 1].ev = "end" /\ ~tsLog[r][i + 1].ok
          /\ tsPc[r] = "failed"
          /\ tsResult[r].thrown /\ tsResult[r].value = None

\* C5 witness: generateContent answered with parts, none of them an image,
\* and the run failed.
C5_Witness ==
    \E r \in Runs :
      /\ tsPc[r] = "failed"
      /\ \E i \in Positions(tsLog[r], "ret", {"generateContent"}) :
           /\ NoUsablePayload(tsLog[r][i])
           /\ tsLog[r][i].resp.payload[1].candidates # None
           /\ tsResult[r].error[1].message = NoImageDataMessage

\* ---------------------------------------------------------------------- C6
\* C6: no failure raised inside a step is swallowed. A run in which a call
\* failed or came back empty has thrown to its caller; a run that returned a
\* package saw every call succeed with a usable payload and every step end
\* successfully; foodRecipeFlow (requests and sample run) returns a non-nil
\* error and no recipe whenever GenerateData returned an error.
C6_FailuresReachCaller ==
    /\ \A r \in Runs :
         /\ \A i \in Positions(tsLog[r], "ret", AllTargets) :
              (tsLog[r][i].resp.failed \/ NoUsablePayload(tsLog[r][i])) =>
                tsPc[r] = "failed" /\ tsResult[r].thrown /\ tsResult[r].error # None
         /\ tsPc[r] = "done" =>
              /\ ~tsResult[r].thrown
              /\ \A i \in Positions(tsLog[r], "end", AllSteps) : tsLog[r][i].ok
    /\ \A q \in Reqs :
         \A i \in Positions(goLog[q], "ret", AllTargets) :
           goLog[q][i].resp.failed =>
             goFlow[q].err # None /\ goFlow[q].recipe = None
    /\ \A i \in Positions(goLog[0], "ret", AllTargets) :
         goLog[0][i].resp.failed => goSample.err # None /\ goSample.recipe = None

\* C6 witness: generateContent failed inside the try block, the catch block
\* ran, and the run has thrown the error.
C6_Witness ==
    \E r \in Runs :
      /\ \E i \in Positions(tsLog[r], "ret", {"generateContent"}) : tsLog[r][i].resp.failed
      /\ tsPc[r] = "failed"
      /\ tsResult[r].error[1].upstream

\* ---------------------------------------------------------------------- C7
\* The step name an error value carries, "untagged" when it carries none.
StepTagOf(e) == IF "step" \in DOMAIN e THEN e.step ELSE "untagged"

\* The step of a run that ended in failure.
FailedStep(log) ==
    LET i == CHOOSE i \in Positions(log, "end", AllSteps) : ~log[i].ok
    IN log[i].name

\* C7 as stated: the failure a run returns carries the name of the step that
\* failed.
C7_FailureTaggedWithStep ==
    \A r \in Runs :
      tsPc[r] = "failed" => StepTagOf(tsResult[r].error[1]) = FailedStep(tsLog[r])

EmptyMessages(step) ==
    CASE step = "menu" -> {MenuEmptyMessage}
      [] step = "design" -> {DesignEmptyMessage}
      [] step = "image" -> {NoCandidatesMessage, NoContentMessage,
                            NoPartsMessage, NoImageDataMessage}

\* C7, amended: the failure a run returns is the error raised in the failing
\* step, passed on as it is; no step name is attached by any flow. When the
\* step's call failed it is the collaborator's error; when the call came back
\* empty it is an Error with the step's own fixed message.
C7_FailureIsTheStepsError ==
    \A r \in Runs :
      tsPc[r] = "failed" =>
        LET log == tsLog[r]
            last == CHOOSE i \in Positions(log, "ret", AllTargets) :
                      \A j \in Positions(log, "ret", AllTargets) : j <= i
            e == tsResult[r].error[1]
        IN /\ StepTagOf(e) = "untagged"
           /\ log[last].name \in StepTargets(FailedStep(log))
           /\ log[last].resp.failed => e = UpstreamError(log[last].resp.cause[1])
           /\ NoUsablePayload(log[last]) =>
                ~e.upstream /\ e.message \in EmptyMessages(FailedStep(log))

\* C7 witness: the design step came back empty and the run failed with the
\* design step's message.
C7_Witness ==
    \E r \in Runs :
      /\ tsPc[r] = "failed"
      /\ FailedStep(tsLog[r]) = "design"
      /\ tsResult[r].error[1] = JsError(DesignEmptyMessage)

\* ---------------------------------------------------------------------- C8
\* The requests the POST /api/recipe handler has answered.
HandledRequests ==
    {q \in Reqs : goPc[q] = "done" /\ goWrites[q] # <<>> /\ goWrites[q][1].by = "handler"}

\* C8 as stated: a request whose input fails validation (foodName missing or
\* blank) is answered 400, and a request whose run fails in any other way is
\* answered 500.
C8_ValidationFailureIs400 ==
    \A q \in HandledRequests :
      LET body == goReq[q][1].body
          status == goWrites[q][1].status
      IN body.decodes =>
           /\ InputRejected(body.input) => status = StatusBadRequest
           /\ (~InputRejected(body.input) /\ goFlow[q].err # None) =>
                status = StatusInternalServerError

\* ---------------------------------------------------------------------- C9
IsSuccessResponse(w) ==
    /\ w.status = StatusOK
    /\ w.recipe # None
    /\ w.error = "" /\ w.message = None

IsErrorResponse(w) ==
    /\ w.status \notin 200..299
    /\ w.error # "" /\ w.message # None
    /\ w.recipe = None

\* C9: every request handled by the POST /api/recipe handler gets exactly one
\* response, which is either 200 with the recipe as body or a non-2xx status
\* with an {error, message} body; a request still in its run has got none.
C9_OneWellFormedResponse ==
    \A q \in Reqs :
      /\ goPc[q] # "done" => goWrites[q] = <<>>
      /\ q \in HandledRequests =>
           /\ Len(goWrites[q]) = 1
           /\ IsSuccessResponse(goWrites[q][1]) \/ IsErrorResponse(goWrites[q][1])
           /\ ~(IsSuccessResponse(goWrites[q][1]) /\ IsErrorResponse(goWrites[q][1]))
           /\ IsSuccessResponse(goWrites[q][1]) <=> goFlow[q].recipe # None

\* C9 witness: the handler has answered one request with a recipe and another
\* with an error body.
C9_Witness ==
    \E q1, q2 \in HandledRequests :
      /\ IsSuccessResponse(goWrites[q1][1])
      /\ IsErrorResponse(goWrites[q2][1])
      /\ goWrites[q2][1].status = StatusInternalServerError

\* --------------------------------------------------------------------- C10
\* C10 as stated, in its parts that do not depend on how the outcome is
\* named: once the caller of a run of completeRestaurantPackageFlow has
\* cancelled while a call is in flight, no further step is invoked and the run
\* returns no package.
C10_CancelledRunStops ==
    [][\A r \in Runs :
         tsCancelled[r] =>
           /\ InvokedSteps(tsLog'[r]) = InvokedSteps(tsLog[r])
           /\ tsPc'[r] # "done"]_vars

\* The GenerateData call of a log was aborted with the context's error.
AbortedByContext(log) ==
    \E i \in Positions(log, "ret", {"GenerateData"}) :
      log[i].resp.failed /\ log[i].resp.cause = Some(ContextCanceled)

\* C10, amended: in the Go service, when the request context is cancelled
\* and the in-flight GenerateData call is aborted with the context's error,
\* foodRecipeFlow returns an error wrapping it and no recipe, and the handler
\* answers 500 with an error body, without a partial result.
\* completeRestaurantPackageFlow takes no cancellation signal: a run whose
\* caller has cancelled ends only as its steps decide, failed exactly when one
\* of its steps failed and otherwise with the full package.
C10_AbortedCallFailsRun ==
    /\ \A q \in Reqs :
         AbortedByContext(goLog[q]) =>
           /\ goCancelled[q]
           /\ goFlow[q] = FlowErr(GenerateFailed(goReq[q][1].body.input.FoodName,
                                                 ContextCanceled))
           /\ goWrites[q] = <<Response("handler", StatusInternalServerError,
                                       "Recipe Generation Failed", goFlow[q].err, None)>>
    /\ \A r \in Runs :
         (tsCancelled[r] /\ tsPc[r] \in {"done", "failed"}) =>
           /\ tsPc[r] = "failed" <=>
                \E i \in Positions(tsLog[r], "end", AllSteps) : ~tsLog[r][i].ok
           /\ tsPc[r] = "done" =>
                /\ CompletedSteps(tsLog[r]) = {"menu", "design", "image"}
                /\ tsResult[r].value # None

\* C10 witness: a request was cancelled in flight, its call was aborted, and
\* it has been answered.
C10_Witness ==
    \E q \in Reqs :
      /\ goCancelled[q]
      /\ AbortedByContext(goLog[q])
      /\ goPc[q] = "done"
      /\ goWrites[q][1].status = StatusInternalServerError

\* --------------------------------------------------------------------- C11
\* The shapes the steps are expected to return, stated field by field.
IsStr(field) == field # None /\ field[1].kind = "string"
ItemComplete(item) ==
    IsStr(item.name) /\ IsStr(item.description) /\ IsStr(item.price)
IsItemList(field) ==
    /\ field # None
    /\ field[1].kind = "array"
    /\ \A k \in 1..Len(field[1].elems) : ItemComplete(field[1].elems[k])
MenuComplete(menu) ==
    /\ IsStr(menu.restaurantName) /\ IsStr(menu.tagline)
    /\ IsItemList(menu.appetizers) /\ IsItemList(menu.mains)
    /\ IsItemList(menu.desserts) /\ IsItemList(menu.beverages)
    /\ menu.specialties = None \/ IsItemList(menu.specialties)
    /\ IsStr(menu.funFact) /\ IsStr(menu.ambiance)
DesignComplete(design) ==
    /\ design.colorScheme # None
    /\ LET c == design.colorScheme[1]
       IN IsStr(c.primary) /\ IsStr(c.secondary) /\ IsStr(c.background) /\ IsStr(c.text)
    /\ design.typography # None
    /\ LET t == design.typography[1]
       IN IsStr(t.headerFont) /\ IsStr(t.bodyFont) /\ IsStr(t.accent)
    /\ IsStr(design.layoutStyle) /\ IsStr(design.decorativeElements)
    /\ IsStr(design.backgroundTexture)

\* A call of the named target in a log came back with a value for which
\* complete does not hold.
PartialReturns(log, target, Complete(_)) ==
    {i \in Positions(log, "ret", {target}) :
       /\ ~log[i].resp.failed
       /\ log[i].resp.payload # None
       /\ ~Complete(log[i].resp.payload[1])}

\* The flows of index.ts never surface a partially-populated value: a menu or
\* design that lacks a required field, or holds one of the wrong kind, ends
\* its step and the run in failure, and the run holds no result of that step;
\* every result a run holds is complete.
TsNoPartialSuccess ==
    \A r \in Runs :
      LET log == tsLog[r] IN
      /\ \A i \in PartialReturns(log, "menuPrompt", MenuComplete) :
           /\ log[i + 1] = End("menu", FALSE)
           /\ tsPc[r] = "failed" /\ tsResult[r].thrown /\ tsMenu[r] = None
      /\ \A i \in PartialReturns(log, "designPrompt", DesignComplete) :
           /\ log[i + 1] = End("design", FALSE)
           /\ tsPc[r] = "failed" /\ tsResult[r].thrown /\ tsDesign[r] = None
      /\ tsMenu[r] # None => MenuComplete(tsMenu[r][1])
      /\ tsDesign[r] # None => DesignComplete(tsDesign[r][1])
      /\ tsPc[r] = "done" =>
           /\ MenuComplete(tsResult[r].value[1].menuData[1])
           /\ DesignComplete(tsResult[r].value[1].designSpecs[1])

\* A recipe with a name and with servings.
RecipeComplete(recipe) == recipe.Name # <<>> /\ recipe.Servings # 0

\* C11 as stated: a partially-populated result is never surfaced as success,
\* in the flows of index.ts and in foodRecipeFlow, where a recipe that comes
\* back without name or without servings is a failure.
C11_PartialResultIsFailure ==
    /\ TsNoPartialSuccess
    /\ \A q \in Reqs :
         \A i \in PartialReturns(goLog[q], "GenerateData", RecipeComplete) :
           goFlow[q].err # None /\ goFlow[q].recipe = None

\* C11, amended: the flows of index.ts never surface a partially-populated
\* value (a menu without tagline is a failure and the run holds no menu).
\* foodRecipeFlow does not fail on a recipe without name or servings: it
\* returns it as success with the name of the request's foodName and the
\* servings of the request's serving size (4 when the request gives none).
C11_PartialMenuFailsPartialRecipeFilled ==
    /\ TsNoPartialSuccess
    /\ \A q \in Reqs :
         \A i \in PartialReturns(goLog[q], "GenerateData", RecipeComplete) :
           LET got == goLog[q][i].resp.payload[1]
               input == goReq[q][1].body.input
               out == goFlow[q].recipe
           IN /\ goFlow[q].err = None /\ out # None
              /\ out[1].Name = IF got.Name = <<>> THEN input.FoodName ELSE got.Name
              /\ out[1].Servings =
                   IF got.Servings # 0 THEN got.Servings
                   ELSE IF input.ServingSize # 0 THEN input.ServingSize ELSE 4
              /\ RecipeComplete(out[1])

\* C11 witness: a run whose menu came back without tagline has failed and
\* holds no menu.
C11_Witness ==
    \E r \in Runs :
      /\ \E i \in Positions(tsLog[r], "ret", {"menuPrompt"}) :
           /\ tsLog[r][i].resp.payload # None
           /\ tsLog[r][i].resp.payload[1].tagline = None
      /\ tsPc[r] = "failed" /\ tsMenu[r] = None

\* --------------------------------------------------------------------- C12
\* The payloads the calls of a target have brought back in a log.
OwnPayloads(log, target) ==
    {log[i].resp.payload : i \in {j \in Positions(log, "ret", {target}) : log[j].ok}}

\* A value a run holds or reads is absent or one of the given ones.
AbsentOrIn(value, own) == value = None \/ value \in own

\* C12: concurrent runs share no per-run state. In every interleaving of the
\* runs of completeRestaurantPackageFlow, what a run hands to each of its
\* calls, what it holds as menuData, designSpecs and prompt text, what it
\* returns, and the name in the path of the file it writes, are that run's
\* own input and the payloads of that run's own calls. In every interleaving
\* of the requests to POST /api/recipe, the defaults and the recipe of a
\* request are made from that request's own body and own GenerateData answer.
C12_RunsShareNoState ==
    /\ \A r \in Runs :
         LET log == tsLog[r]
             menus == OwnPayloads(log, "menuPrompt")
             designs == OwnPayloads(log, "designPrompt")
             texts == OwnPayloads(log, "imagePrompt")
         IN /\ \A i \in Positions(log, "call", AllTargets) :
                 /\ AbsentOrIn(log[i].args.restaurantSpecs, {tsInput[r]})
                 /\ AbsentOrIn(log[i].args.menuData, menus)
                 /\ AbsentOrIn(log[i].args.designSpecs, designs)
                 /\ AbsentOrIn(log[i].args.text, texts)
            /\ AbsentOrIn(tsMenu[r], menus)
            /\ AbsentOrIn(tsDesign[r], designs)
            /\ AbsentOrIn(tsText[r], texts)
            /\ tsPc[r] = "done" =>
                 LET package == tsResult[r].value[1] IN
                 /\ package.restaurantSpecs = tsInput[r]
                 /\ package.menuData \in menus
                 /\ package.designSpecs \in designs
                 /\ \E t \in 0..MaxClock, m \in menus :
                      package.imagePath = Some(MenuCardPath(m[1].restaurantName[1].str, t))
    /\ \A q \in Reqs :
         LET recipes == OwnPayloads(goLog[q], "GenerateData") IN
         /\ goDefaults[q] # None =>
              goDefaults[q][1].food = goReq[q][1].body.input.FoodName
         /\ goFlow[q].recipe # None =>
              \E got \in recipes :
                /\ goFlow[q].recipe[1].Name \in {got[1].Name, goReq[q][1].body.input.FoodName}
                /\ goFlow[q].recipe[1].Servings \in {got[1].Servings, goDefaults[q][1].servingSize}
                /\ goWrites[q][1].recipe = goFlow[q].recipe

\* C12 witness: two runs have both returned, each with a different menu, and
\* both have written their file.
C12_Witness ==
    \E r1, r2 \in Runs :
      /\ tsPc[r1] = "done" /\ tsPc[r2] = "done"
      /\ tsMenu[r1] # tsMenu[r2]
      /\ tsResult[r1].value[1].menuData = tsMenu[r1]
      /\ tsResult[r2].value[1].menuData = tsMenu[r2]
      /\ \E f1, f2 \in files : f1.run = r1 /\ f2.run = r2

\* --------------------------------------------------------------------- C13
\* A value handed to the call at position i of a log is the payload of a
\* call of the target that settled, successfully, before position i.
ProducedBefore(log, i, target, value) ==
    \E j \in Positions(log, "ret", {target}) :
      j < i /\ log[j].ok /\ log[j].resp.payload = value

\* C13: the data dependencies between the stages are strictly forward. The
\* menu step is given the initial input alone; the design step is given the
\* initial input and the output the menu step produced before; the image step
\* is given the initial input and the outputs the menu and design steps
\* produced before, and its image call the text its prompt call produced
\* before. No call is given the output of its own or of a later step.
C13_ForwardDependencies ==
    \A r \in Runs :
      LET log == tsLog[r] IN
      \A i \in Positions(log, "call", AllTargets) :
        LET args == log[i].args IN
        CASE log[i].name = "menuPrompt" ->
               args = CallArgs(tsInput[r], None, None, None)
          [] log[i].name = "designPrompt" ->
               /\ args.restaurantSpecs = tsInput[r]
               /\ ProducedBefore(log, i, "menuPrompt", args.menuData)
               /\ args.designSpecs = None /\ args.text = None
          [] log[i].name = "imagePrompt" ->
               /\ args.restaurantSpecs = tsInput[r]
               /\ ProducedBefore(log, i, "menuPrompt", args.menuData)
               /\ ProducedBefore(log, i, "designPrompt", args.designSpecs)
               /\ args.text = None
          [] log[i].name = "generateContent" ->
               /\ ProducedBefore(log, i, "imagePrompt", args.text)
               /\ args.restaurantSpecs = None /\ args.menuData = None
               /\ args.designSpecs = None

\* C13 witness: the image call of a run has been issued, after the image
\* prompt was given the outputs of both earlier steps.
C13_Witness ==
    \E r \in Runs :
      /\ Positions(tsLog[r], "call", {"generateContent"}) # {}
      /\ \E i \in Positions(tsLog[r], "call", {"imagePrompt"}) :
           /\ tsLog[r][i].args.menuData # None
           /\ tsLog[r][i].args.designSpecs # None

\* --------------------------------------------------------------------- C14
\* The steps that end in a transition of run r.
EndingSteps(r) == EndedSteps(tsLog'[r]) \ EndedSteps(tsLog[r])

\* C14: a step never changes a result written by an earlier step. Once a run
\* holds restaurantSpecs, menuData or designSpecs, no transition changes it;
\* the transition in which the design step ends leaves restaurantSpecs and
\* menuData as they were, and the one in which the image step ends leaves
\* restaurantSpecs, menuData and designSpecs as they were.
C14_EarlierResultsUnchanged ==
    [][\A r \in Runs :
         /\ tsInput[r] # None => tsInput'[r] = tsInput[r]
         /\ tsMenu[r] # None => tsMenu'[r] = tsMenu[r]
         /\ tsDesign[r] # None => tsDesign'[r] = tsDesign[r]
         /\ "design" \in EndingSteps(r) =>
              tsInput'[r] = tsInput[r] /\ tsMenu'[r] = tsMenu[r]
         /\ "image" \in EndingSteps(r) =>
              /\ tsInput'[r] = tsInput[r] /\ tsMenu'[r] = tsMenu[r]
              /\ tsDesign'[r] = tsDesign[r]]_vars

\* C14 witness: a run is through its image step, which read a restaurant
\* name that the file name does not hold as it is, and still holds the menu
\* and the design its calls brought back.
C14_Witness ==
    \E r \in Runs :
      /\ "image" \in CompletedSteps(tsLog[r])
      /\ tsMenu[r] \in OwnPayloads(tsLog[r], "menuPrompt")
      /\ tsDesign[r] \in OwnPayloads(tsLog[r], "designPrompt")
      /\ SanitizeName(tsMenu[r][1].restaurantName[1].str) # tsMenu[r][1].restaurantName[1].str

\* --------------------------------------------------------------------- C15
\* The calls of a target in a log that came back with a value for which
\* complete holds.
CompleteReturns(log, target, Complete(_)) ==
    {i \in Positions(log, "ret", {target}) :
       /\ ~log[i].resp.failed
       /\ log[i].resp.payload # None
       /\ Complete(log[i].resp.payload[1])}

WritesOf(log) ==
    LET w == SelectSeq(log, LAMBDA e : e.ev = "write")
    IN [k \in 1..Len(w) |-> w[k].resp.payload[1]]

\* The image data the parts of a generateContent answer hold, in their order.
ImageDataOf(resp) ==
    LET parts == resp.payload[1].candidates[1][1].content[1].parts[1]
        withData == SelectSeq(parts, LAMBDA p : p.inlineData # None /\ p.inlineData[1].data # "")
    IN [k \in 1..Len(withData) |-> withData[k].inlineData[1].data]

\* C16: the image step writes at most one file per run, however many image
\* parts the model's answer holds (the first one is saved); the file lies in
\* the directory generated_menus, which exists whenever a file has been
\* written, and no write fails for want of the directory (it is created
\* first when absent); the file's name is made of the menu's restaurant name
\* and the time stamp alone, menu_card_<name>_<time stamp>.png.
C16_OneArtifactInOutputDir ==
    /\ files # {} => dirExists
    /\ \A f \in files : f.path[1] = "generated_menus" /\ f.path[2] = "/"
    /\ \A r \in Runs :
         LET writes == WritesOf(tsLog[r]) IN
         /\ Len(writes) <= 1
         /\ tsResult[r].thrown => tsResult[r].error[1].message # NoDirMessage
         /\ Len(writes) = 1 =>
              /\ dirExists
              /\ \E i \in Positions(tsLog[r], "ret", {"generateContent"}) :
                   writes[1].data = ImageDataOf(tsLog[r][i].resp)[1]
              /\ \E t \in 0..MaxClock :
                   writes[1].path =
                     <<"generated_menus", "/", "menu_card_">>
                       \o SanitizeName(tsMenu[r][1].restaurantName[1].str)
                       \o <<"_", Timestamp(t), ".png">>
              /\ tsPc[r] = "done" => tsResult[r].value[1].imagePath = Some(writes[1].path)

\* C16 witness: the model answered a run with two image parts, and the run
\* has returned with one file, which holds the first of them.
C16_Witness ==
    \E r \in Runs :
      /\ tsPc[r] = "done"
      /\ \E i \in Positions(tsLog[r], "ret", {"generateContent"}) :
           Len(ImageDataOf(tsLog[r][i].resp)) = 2
      /\ Cardinality(files) = 1
      /\ \A f \in files : f.run = r /\ f.data = "png2"
      /\ dirExists

\* --------------------------------------------------------------------- C17
\* The runs that have been invoked, with whatever input.
Invoked == {r \in Runs : tsInput[r] # None}

\* An invocation was turned down by the flow's inputSchema.
Rejected(r) == tsPc[r] = "rejected"

\* C17: the priceRange check is an exact, case-sensitive membership test. An
\* invocation whose other fields are in order is accepted if and only if its
\* priceRange is one of budget, mid-range, upscale, fine-dining; with any
\* other string, such as Budget, the flow throws a schema error that names
\* priceRange, without invoking a step or issuing a call.
C17_EnumIsExactMembership ==
    \A r \in Invoked :
      LET input == tsInput[r][1] IN
      (IsStr(input.name) /\ IsStr(input.priceRange)
         /\ (input.specialFeature = None \/ IsStr(input.specialFeature))) =>
        IF input.priceRange[1].str \in {"budget", "mid-range", "upscale", "fine-dining"}
        THEN ~Rejected(r) /\ tsLog[r] # <<>>
        ELSE /\ Rejected(r)
             /\ tsResult[r] = Thrown(JsError("Schema validation failed: priceRange"))
             /\ tsLog[r] = <<>> /\ tsMenu[r] = None

\* C17 witness: an invocation with priceRange Budget was turned down.
C17_Witness ==
    \E r \in Invoked :
      /\ tsInput[r][1].priceRange = Some(Str("Budget"))
      /\ IsStr(tsInput[r][1].name)
      /\ Rejected(r)

\* --------------------------------------------------------------------- C18
\* The lists of a menu, in the order of their declaration.
ListsOf(menu) ==
    <<[name |-> "appetizers", list |-> menu.appetizers],
      [name |-> "mains", list |-> menu.mains],
      [name |-> "desserts", list |-> menu.desserts],
      [name |-> "beverages", list |-> menu.beverages],
      [name |-> "specialties", list |-> menu.specialties]>>

\* A menu whose only possible defects are in the elements of its lists.
ListsInPlace(menu) ==
    /\ IsStr(menu.restaurantName) /\ IsStr(menu.tagline)
    /\ IsStr(menu.funFact) /\ IsStr(menu.ambiance)
    /\ \A k \in 1..5 :
         LET l == ListsOf(menu)[k].list
         IN IF l = None THEN k = 5 ELSE l[1].kind = "array"

\* The lists of a menu that hold an element without name, description or
\* price, in the order of their declaration.
OffendingLists(menu) ==
    SelectSeq(ListsOf(menu),
              LAMBDA l : /\ l.list # None
                         /\ \E k \in 1..Len(l.list[1].elems) :
                              ~ItemComplete(l.list[1].elems[k]))

\* The place of the first offending element, as JavaScript writes it.
FirstOffence(menu) ==
    LET l == OffendingLists(menu)[1]
        elems == l.list[1].elems
        k == CHOOSE k \in 1..Len(elems) :
               /\ ~ItemComplete(elems[k])
               /\ \A j \in 1..(k - 1) : ItemComplete(elems[j])
        field == IF ~IsStr(elems[k].name) THEN "name"
                 ELSE IF ~IsStr(elems[k].description) THEN "description"
                 ELSE "price"
    IN l.name \o "[" \o ToString(k - 1) \o "]." \o field

\* C18: every element of every list of a menu is checked. A menu with an
\* element that lacks name, description or price (or holds one that is not a
\* string) in appetizers, mains, desserts, beverages or specialties ends the
\* menu step and the run in failure, and the error names the first offending
\* element and its field, such as appetizers[1].price.
C18_SequenceElementsChecked ==
    \A r \in Runs :
      \A i \in Positions(tsLog[r], "ret", {"menuPrompt"}) :
        LET resp == tsLog[r][i].resp IN
        (~resp.failed /\ resp.payload # None /\ ListsInPlace(resp.payload[1])
           /\ OffendingLists(resp.payload[1]) # <<>>) =>
          /\ tsLog[r][i + 1] = End("menu", FALSE)
          /\ tsPc[r] = "failed" /\ tsMenu[r] = None
          /\ tsResult[r] = Thrown(JsError("Schema validation failed: "
                                           \o FirstOffence(resp.payload[1])))

\* C18 witness: a menu whose second appetizer has no price and whose third
\* has no name ended the run with an error that names appetizers[1].price.
C18_Witness ==
    \E r \in Runs :
      /\ tsPc[r] = "failed"
      /\ tsResult[r].error[1].message = "Schema validation failed: appetizers[1].price"
      /\ \E i \in Positions(tsLog[r], "ret", {"menuPrompt"}) :
           Len(tsLog[r][i].resp.payload[1].appetizers[1].elems) = 3

\* --------------------------------------------------------------------- C19
\* C19: an optional field does no harm when absent and does when present
\* with the wrong kind. An invocation whose required fields are in order is
\* accepted without specialFeature and with a string, and turned down with a
\* schema error naming specialFeature otherwise; a menu whose required fields
\* are in order passes the menu step without specialties and with a list of
\* menu items, and fails it when specialties is anything else.
C19_OptionalFields ==
    /\ \A r \in Invoked :
         LET input == tsInput[r][1] IN
         (IsStr(input.name) /\ IsStr(input.priceRange)
            /\ input.priceRange[1].str \in {"budget", "mid-range", "upscale", "fine-dining"}) =>
           IF input.specialFeature = None \/ IsStr(input.specialFeature)
           THEN ~Rejected(r) /\ tsLog[r] # <<>>
           ELSE /\ Rejected(r)
                /\ tsResult[r] = Thrown(JsError("Schema validation failed: specialFeature"))
    /\ \A r \in Runs :
         \A i \in Positions(tsLog[r], "ret", {"menuPrompt"}) :
           LET resp == tsLog[r][i].resp IN
           (~resp.failed /\ resp.payload # None
              /\ MenuComplete([resp.payload[1] EXCEPT !.specialties = None])) =>
             LET specialties == resp.payload[1].specialties IN
             IF specialties = None \/ IsItemList(specialties)
             THEN tsLog[r][i + 1] = End("menu", TRUE) /\ tsMenu[r] = resp.payload
             ELSE /\ tsLog[r][i + 1] = End("menu", FALSE)
                  /\ tsPc[r] = "failed" /\ tsMenu[r] = None

\* C19 witness: an invocation without specialFeature, whose menu came without
\* specialties, has returned its package.
C19_Witness ==
    \E r \in Invoked :
      /\ tsInput[r][1].specialFeature = None
      /\ tsPc[r] = "done"
      /\ tsResult[r].value[1].menuData[1].specialties = None

\* --------------------------------------------------------------------- C20
\* The steps of a run that have ended in success.
StepsSucceeded(log) ==
    {log[i].name : i \in {j \in Positions(log, "end", {"menu", "design", "image"}) : log[j].ok}}

\* C20: a run that returns, returns the package of its own values:
\* restaurantSpecs is the input it was invoked with (the one it gave to the
\* menu step), menuData the menu its menu step received, designSpecs the
\* design its design step received and imagePath the path its image step has
\* written; and a run has returned a value only when its menu, design and
\* image step have all three ended in success.
C20_PackageAggregatesOwnValues ==
    \A r \in Runs :
      /\ tsPc[r] = "done" =>
           /\ ~tsResult[r].thrown /\ tsResult[r].value # None
           /\ LET package == tsResult[r].value[1]
                  log == tsLog[r]
              IN /\ package.restaurantSpecs = tsInput[r]
                 /\ package.restaurantSpecs = log[2].args.restaurantSpecs
                 /\ OwnPayloads(log, "menuPrompt") = {package.menuData}
                 /\ OwnPayloads(log, "designPrompt") = {package.designSpecs}
                 /\ Len(WritesOf(log)) = 1
                 /\ package.imagePath = Some(WritesOf(log)[1].path)
      /\ tsResult[r].value # None =>
           /\ tsPc[r] = "done"
           /\ StepsSucceeded(tsLog[r]) = {"menu", "design", "image"}

\* C20 witness: a run invoked with specifications other than those of main's
\* example has returned its package.
C20_Witness ==
    \E r \in Runs :
      /\ tsPc[r] = "done"
      /\ tsResult[r].value # None
      /\ tsResult[r].value[1].restaurantSpecs # Some(ExampleInput)
      /\ tsResult[r].value[1].menuData[1].specialties # None

\* --------------------------------------------------------------------- C21
\* The requests whose body the handler has decoded into a FoodInput.
DecodedRequests ==
    {q \in Reqs : /\ goReq[q] # None
                  /\ goReq[q][1].method = "POST"
                  /\ goReq[q][1].body.decodes}

\* A food name that is empty or white space only.
Blank(name) == \A k \in 1..Len(name) : name[k] \in {" ", "\t", "\n", "\r"}

\* C21: foodRecipeFlow turns an input down whose foodName is empty or white
\* space only, with the error "food name is required", before any call to
\* GenerateData: the run of such a request holds no call at all. An input
\* with any other foodName gets its call.
C21_BlankFoodNameRejectedBeforeCall ==
    \A q \in DecodedRequests :
      LET input == goReq[q][1].body.input IN
      IF Blank(input.FoodName)
      THEN /\ goFlow[q].recipe = None
           /\ goFlow[q].err # None
           /\ goFlow[q].err[1].msg = "food name is required"
           /\ goFlow[q].err[1].cause = None
           /\ Positions(goLog[q], "call", AllTargets) = {}
           /\ goLog[q] = <<Invoke("foodRecipeFlow"), End("foodRecipeFlow", FALSE)>>
           /\ goDefaults[q] = None
      ELSE /\ Positions(goLog[q], "call", {"GenerateData"}) # {}
           /\ goFlow[q].err # None => goFlow[q].err[1].msg # "food name is required"

\* C21 witness: a request whose foodName is a blank and a tab has been turned
\* down by the flow.
C21_Witness ==
    \E q \in DecodedRequests :
      /\ goReq[q][1].body.input.FoodName = <<" ", "\t">>
      /\ goFlow[q].err = Some(FoodNameRequired)

\* --------------------------------------------------------------------- C22
\* C22: the prompt of a run is built from the input's foodName as given and
\* from the effective options: difficulty is medium when the input has none,
\* servings 4 when the input's servingSize is 0 and dietary restrictions none
\* when the input has none; an option the input gives is used as given.
C22_DefaultsForOmittedInputs ==
    \A q \in DecodedRequests :
      goDefaults[q] # None =>
        LET input == goReq[q][1].body.input
            args == goDefaults[q][1]
        IN /\ args.food = input.FoodName
           /\ IF input.Difficulty = "" THEN args.difficulty = "medium"
              ELSE args.difficulty = input.Difficulty
           /\ IF input.ServingSize = 0 THEN args.servingSize = 4
              ELSE args.servingSize = input.ServingSize
           /\ IF input.DietaryRestrictions = "" THEN args.dietaryRestrictions = "none"
              ELSE args.dietaryRestrictions = input.DietaryRestrictions

\* C22 witness: one request's prompt was built from the three defaults and
\* another's from the three options its input gave.
C22_Witness ==
    \E q1, q2 \in DecodedRequests :
      /\ goDefaults[q1] # None /\ goDefaults[q2] # None
      /\ goReq[q1][1].body.input.ServingSize = 0
      /\ goReq[q1][1].body.input.Difficulty = ""
      /\ goReq[q1][1].body.input.DietaryRestrictions = ""
      /\ goDefaults[q1][1].servingSize = 4
      /\ goReq[q2][1].body.input.ServingSize = 6
      /\ goDefaults[q2][1].difficulty = "easy"
      /\ goDefaults[q2][1].dietaryRestrictions = "vegan"

\* --------------------------------------------------------------------- C23
\* The recipe GenerateData decoded in a run that went on to return one.
DecodedRecipe(log) ==
    log[CHOOSE i \in Positions(log, "ret", {"GenerateData"}) : log[i].ok].resp.payload[1]

\* What C23 says of one run: input, its effective serving size, the flow's
\* result and the run's log.
RecipeFilled(input, servingSize, flow, log) ==
    flow.recipe # None =>
      LET recipe == flow.recipe[1]
          decoded == DecodedRecipe(log)
      IN /\ recipe.Name # <<>>
         /\ recipe.Servings # 0
         /\ recipe.Name = IF decoded.Name = <<>> THEN input.FoodName ELSE decoded.Name
         /\ recipe.Servings = IF decoded.Servings = 0 THEN servingSize
                              ELSE decoded.Servings
         /\ recipe.Description = decoded.Description

C24_UndecodableBodyIs400 ==
    \A q \in Reqs :
      (goReq[q] # None /\ goReq[q][1].method = "POST") =>
        IF ~goReq[q][1].body.decodes
        THEN /\ goPc[q] = "done"
             /\ Len(goWrites[q]) = 1
             /\ goWrites[q][1].by = "handler"
             /\ goWrites[q][1].status = 400
             /\ goWrites[q][1].error = "Invalid JSON"
             /\ goWrites[q][1].message # None
             /\ goWrites[q][1].message[1].msg = "Please provide valid JSON input"
             /\ goWrites[q][1].recipe = None
             /\ goLog[q] = <<>>
             /\ goFlow[q] = NoFlow
        ELSE \A k \in 1..Len(goWrites[q]) : goWrites[q][k].error # "Invalid JSON"

\* C24 witness: one request with an undecodable body was answered while
\* another request, with a body that decodes, is in its run.
C24_Witness ==
    \E q1, q2 \in Reqs :
      /\ goReq[q1] # None /\ goReq[q1][1].method = "POST"
      /\ ~goReq[q1][1].body.decodes
      /\ goWrites[q1] # <<>>
      /\ goPc[q2] = "gen_wait"

\* --------------------------------------------------------------------- C25
\* The files on disk that run r was the last to open.
FilesOf(r) == {f \in files : f.run = r}

\* C25 as stated: a run that has ended in failure has left no file.
C25_FailedRunLeavesNoFile ==
    \A r \in Runs : tsPc[r] \in {"failed", "rejected"} => FilesOf(r) = {}

\* C25: a run that has ended in failure has completed no file write, and
\* leaves no file unless it failed in fs.writeFileSync itself, after the
\* file was opened: every other failure (input validation, menu, design,
\* image prompt, generateContent, the checks of the response, mkdirSync,
\* opening the file) comes before anything is written and leaves the files
\* as they were. The file a failed writeFileSync leaves holds a part of the
\* data, never the image.
C25_FailedRunCompletesNoWrite ==
    /\ \A r \in Runs :
         tsPc[r] \in {"failed", "rejected"} =>
           /\ WritesOf(tsLog[r]) = <<>>
           /\ \A f \in FilesOf(r) :
                /\ f.data = Truncated
                /\ tsResult[r] = Thrown(JsError(FsErrorMessage))
                /\ FailedStep(tsLog[r]) = "image"
    /\ \A f \in files : f.data # Truncated => tsPc[f.run] = "done"

\* C25 witness: a run has failed in writeFileSync and left a truncated file,
\* and another run has failed in the image step before it and left none.
C25_Witness ==
    \E r1, r2 \in Runs :
      /\ tsPc[r1] = "failed" /\ tsPc[r2] = "failed"
      /\ \E f \in files : f.run = r1 /\ f.data = Truncated
      /\ FailedStep(tsLog[r2]) = "image" /\ FilesOf(r2) = {}

\* --------------------------------------------------------------------- C26
\* C26 as stated: two runs never write to the same file path, whatever their
\* restaurant names and the instants of their writes, so that the file a run
\* has written stays on disk as that run wrote it.
C26_RunsNeverShareAPath ==
    \A r1, r2 \in Runs :
      r1 # r2 =>
        \A k1 \in 1..Len(WritesOf(tsLog[r1])), k2 \in 1..Len(WritesOf(tsLog[r2])) :
          WritesOf(tsLog[r1])[k1].path # WritesOf(tsLog[r2])[k2].path

\* --------------------------------------------------------------------- C27
\* The OPTIONS requests for /api/recipe that have been answered.
OptionsRequests ==
    {q \in Reqs : goReq[q] # None /\ goReq[q][1].method = "OPTIONS"}

\* C27 as stated: an OPTIONS request for /api/recipe is answered by the
\* recipe handler, with status 200, without a body being decoded and without
\* foodRecipeFlow being invoked.
C27_OptionsAnsweredByHandler ==
    \A q \in OptionsRequests :
      /\ goPc[q] = "done"
      /\ Len(goWrites[q]) = 1
      /\ goWrites[q][1].by = "handler"
      /\ goWrites[q][1].status = StatusOK
      /\ goLog[q] = <<>>
      /\ goFlow[q] = NoFlow

\* --------------------------------------------------------------------- C28
\* The sample run of main has returned, with a recipe or with an error.
SampleCompleted ==
    /\ goSample # NoFlow
    /\ goSample.recipe = None <=> goSample.err # None
    /\ goLog[0][Len(goLog[0])] = End("foodRecipeFlow", goSample.err = None)

\* C28: the server listens only after the sample run has returned, no
\* request is taken before it listens, and once the sample run has returned,
\* with a recipe or with an error, the server does get to listen.
C28_ServerStartsAfterSample ==
    /\ [](goMain = "serving" => SampleCompleted)
    /\ [](\A q \in Reqs : goReq[q] # None => goMain = "serving")
    /\ (goMain = "sample_done" /\ goSample.err # None) ~> (goMain = "serving")
    /\ (goMain = "sample_done" /\ goSample.err = None) ~> (goMain = "serving")

\* C28 witness: the sample run has failed, and the server listens and has
\* answered a request with a recipe.
C28_Witness ==
    /\ goMain = "serving"
    /\ goSample.err # None
    /\ \E q \in Reqs : goPc[q] = "done" /\ goFlow[q].recipe # None

====
